---- MODULE Spec2Model ----
(***************************************************************************)
(* pydocusign: the DocuSign callback parser (pydocusign/parser.py) and the *)
(* recipient reconciliation of Envelope.get_recipients                     *)
(* (pydocusign/models.py), as state machines.                              *)
(*                                                                         *)
(* A Python string is a sequence of symbols.  A symbol is one character,   *)
(* except that the leading "YYYY-MM-DDTHH:MM:" part of a timestamp is one  *)
(* symbol (see Prefixes): nothing modelled here depends on its parts.      *)
(* A Python value that may be None, or of several types, is a record whose *)
(* only field names its type: [none], [str], [int], or a datetime record.  *)
(* A call's outcome is [ret |-> value] or [raise |-> exception name].      *)
(***************************************************************************)
EXTENDS Integers, Sequences, FiniteSets, TLC

VARIABLES
    xml_soup,   \* DocuSignCallbackParser.xml_soup: the parsed callback document
    call,       \* the last operation applied: its name, arguments and outcome
    envelope,   \* the Envelope object: recipients, templateRoles, templateId, envelopeId
    heap,       \* Signer / Role objects by identity
    calls,      \* number of get_recipients() calls made so far
    server,     \* the recipients DocuSign holds for the envelope (the answer
                \* of client.get_envelope_recipients)
    log         \* what has been done so far, in order: the HTTP requests sent
                \* and the EventNotification objects constructed

vars == <<xml_soup, call, envelope, heap, calls, server, log>>

----------------------------------------------------------------------------
(* Bounds *)

\* most status timestamp nodes directly under the EnvelopeStatus node
MaxEnvNodes == 2
\* most RecipientStatus nodes of a callback document
MaxRecipientNodes == 2
\* most signer records of a server response
MaxSigners == 2
\* most local recipients of an envelope before the first get_recipients()
MaxLocal == 2
\* most get_recipients() calls on one envelope
MaxCalls == 2

----------------------------------------------------------------------------
(* Python values and outcomes *)

PyNone == [none |-> TRUE]
PyStr(cs) == [str |-> cs]
PyInt(n) == [int |-> n]
Return(v) == [ret |-> v]
Raise(e) == [raise |-> e]
IsRaise(o) == "raise" \in DOMAIN o
\* raise e(message), where the message matters
RaiseMessage(e, message) == [raise |-> e, message |-> message]
\* v is None, for a v that may be a list as well
IsNone(v) == ToString(v) = ToString(PyNone)
IsStr(v) == "str" \in DOMAIN v
IsInt(v) == "int" \in DOMAIN v
IsDatetime(v) == "second" \in DOMAIN v

\* Python truth value of None, a str or an int
Truthy(v) ==
    IF v = PyNone THEN FALSE
    ELSE IF IsStr(v) THEN v.str # <<>>
    ELSE IF IsInt(v) THEN v.int # 0
    ELSE TRUE

----------------------------------------------------------------------------
(* Characters *)

Digits == <<"0", "1", "2", "3", "4", "5", "6", "7", "8", "9">>
LowerCase == <<"a", "b", "c", "d", "e", "f", "g", "h", "i", "j", "k", "l", "m",
               "n", "o", "p", "q", "r", "s", "t", "u", "v", "w", "x", "y", "z">>
UpperCase == <<"A", "B", "C", "D", "E", "F", "G", "H", "I", "J", "K", "L", "M",
               "N", "O", "P", "Q", "R", "S", "T", "U", "V", "W", "X", "Y", "Z">>

Occurs(seq, c) == \E i \in 1..Len(seq) : seq[i] = c
IndexOf(seq, c) == CHOOSE i \in 1..Len(seq) : seq[i] = c
IsDigit(c) == Occurs(Digits, c)
DigitValue(c) == IndexOf(Digits, c) - 1
IsCased(c) == Occurs(LowerCase, c) \/ Occurs(UpperCase, c)
upper(c) == IF Occurs(LowerCase, c) THEN UpperCase[IndexOf(LowerCase, c)] ELSE c
lower(c) == IF Occurs(UpperCase, c) THEN LowerCase[IndexOf(UpperCase, c)] ELSE c

\* str.title(): a cased character that follows a cased character is
\* lowercased, every other cased character is uppercased.
title(s) ==
    [i \in 1..Len(s) |->
        IF i > 1 /\ IsCased(s[i - 1]) THEN lower(s[i]) ELSE upper(s[i])]

AllDigits(cs) == \A i \in 1..Len(cs) : IsDigit(cs[i])

RECURSIVE DigitsValue(_)
DigitsValue(cs) ==
    IF cs = <<>> THEN 0
    ELSE 10 * DigitsValue(SubSeq(cs, 1, Len(cs) - 1)) + DigitValue(cs[Len(cs)])

\* int(x) of a str: optional sign, then one or more digits; of an int: itself
int(v) ==
    IF IsInt(v) THEN Return(v.int)
    ELSE IF ~IsStr(v) THEN Raise("TypeError")
    ELSE LET cs == v.str
             signed == cs # <<>> /\ cs[1] \in {"-", "+"}
             body == IF signed THEN Tail(cs) ELSE cs
         IN  IF body = <<>> \/ ~AllDigits(body) THEN Raise("ValueError")
             ELSE IF signed /\ cs[1] = "-" THEN Return(0 - DigitsValue(body))
             ELSE Return(DigitsValue(body))

RECURSIVE NatDigits(_)
NatDigits(n) ==
    IF n < 10 THEN <<Digits[n + 1]>>
    ELSE NatDigits(n \div 10) \o <<Digits[(n % 10) + 1]>>

\* str(n) of an int: a minus sign for a negative number, no sign otherwise
IntStr(n) == IF n < 0 THEN <<"-">> \o NatDigits(0 - n) ELSE NatDigits(n)

\* digits of n, left-padded with zeros to the given width
RECURSIVE ZeroPad(_, _)
ZeroPad(cs, width) == IF Len(cs) >= width THEN cs ELSE ZeroPad(<<"0">> \o cs, width)

----------------------------------------------------------------------------
(* Timestamps *)

\* The date-and-minute prefixes of the timestamps in use: the text as
\* DocuSign writes it, the text as str(datetime) writes it, and the minute
\* it denotes, counted from the first one.
Prefixes == <<
    [iso |-> "2014-10-04T10:00:", text |-> "2014-10-04 10:00:", minute |-> 0],
    [iso |-> "2014-10-04T10:01:", text |-> "2014-10-04 10:01:", minute |-> 1],
    [iso |-> "2014-10-05T10:00:", text |-> "2014-10-05 10:00:", minute |-> 1440] >>

IsPrefix(c) == \E i \in 1..Len(Prefixes) : c \in {Prefixes[i].iso, Prefixes[i].text}
PrefixOf(c) == CHOOSE i \in 1..Len(Prefixes) : c \in {Prefixes[i].iso, Prefixes[i].text}

\* str(datetime): "YYYY-MM-DD HH:MM:SS", ".ffffff" when microsecond is not
\* zero, "+HH:00" / "-HH:00" when the datetime is offset-aware.
DatetimeStr(dt) ==
    <<Prefixes[dt.prefix].text>>
    \o ZeroPad(NatDigits(dt.second), 2)
    \o (IF dt.microsecond = 0 THEN <<>>
        ELSE <<".">> \o ZeroPad(NatDigits(dt.microsecond), 6))
    \o (IF dt.tzoffset = PyNone THEN <<>>
        ELSE LET h == dt.tzoffset.int
             IN  <<IF h < 0 THEN "-" ELSE "+">>
                 \o ZeroPad(NatDigits(IF h < 0 THEN 0 - h ELSE h), 2)
                 \o <<":", "0", "0">>)

\* '{}'.format(value)
format(v) ==
    IF IsStr(v) THEN v.str
    ELSE IF IsInt(v) THEN IntStr(v.int)
    ELSE IF v = PyNone THEN <<"N", "o", "n", "e">>
    ELSE DatetimeStr(v)

\* the end of the run of digits and dots that starts at position i
RECURSIVE NumberEnd(_, _)
NumberEnd(cs, i) ==
    IF i <= Len(cs) /\ (IsDigit(cs[i]) \/ cs[i] = ".") THEN NumberEnd(cs, i + 1)
    ELSE i - 1

DotAt(cs) == IF Occurs(cs, ".") THEN IndexOf(cs, ".") ELSE 0

\* dateutil _parsems: seconds, and the fraction cut or zero-padded to six digits
parsems(tok) ==
    LET d == DotAt(tok)
        whole == IF d = 0 THEN tok ELSE SubSeq(tok, 1, d - 1)
        frac == IF d = 0 THEN <<>> ELSE SubSeq(tok, d + 1, Len(tok))
        six == SubSeq(frac \o <<"0", "0", "0", "0", "0", "0">>, 1, 6)
    IN  [second |-> DigitsValue(whole), microsecond |-> DigitsValue(six)]

\* dateutil's numbered time zones, read from position i on: a sign followed
\* by HH, by HH:MM or by HHMM; a later one replaces an earlier one.  The
\* outcome is the offset in hours (offsets here are whole hours), PyNone
\* when the text has none, or TzError when the text is something else.
TzError == [error |-> TRUE]

RECURSIVE ParseTz(_, _, _)
ParseTz(cs, i, tz) ==
    IF i > Len(cs) THEN tz
    ELSE IF cs[i] \notin {"+", "-"} THEN TzError
    ELSE LET e == NumberEnd(cs, i + 1)
             tok == SubSeq(cs, i + 1, e)
             sign == IF cs[i] = "-" THEN 0 - 1 ELSE 1
         IN  IF tok = <<>> \/ ~AllDigits(tok) THEN TzError
             ELSE IF Len(tok) = 4
                  THEN ParseTz(cs, e + 1, PyInt(sign * DigitsValue(SubSeq(tok, 1, 2))))
             ELSE IF e + 1 <= Len(cs) /\ cs[e + 1] = ":"
                  THEN LET e2 == NumberEnd(cs, e + 2)
                       IN  IF e2 < e + 2 THEN TzError
                           ELSE ParseTz(cs, e2 + 1, PyInt(sign * DigitsValue(tok)))
             ELSE IF Len(tok) <= 2
                  THEN ParseTz(cs, e + 1, PyInt(sign * DigitsValue(tok)))
             ELSE TzError

\* dateutil.parser.parse of a text "<date and minute>SS[.f...][tz]"
parse(cs) ==
    IF cs = <<>> \/ ~IsPrefix(cs[1]) THEN Raise("ValueError")
    ELSE LET e == NumberEnd(cs, 2)
             tok == SubSeq(cs, 2, e)
             d == DotAt(tok)
         IN  IF tok = <<>> \/ d = 1 THEN Raise("ValueError")
             ELSE IF d # 0 /\ Occurs(SubSeq(tok, d + 1, Len(tok)), ".")
                  THEN Raise("ValueError")
             ELSE LET ms == parsems(tok)
                      tz == ParseTz(cs, e + 1, PyNone)
                  IN  IF tz = TzError \/ ms.second > 59 THEN Raise("ValueError")
                      ELSE Return([prefix |-> PrefixOf(cs[1]),
                                   second |-> ms.second,
                                   microsecond |-> ms.microsecond,
                                   tzoffset |-> tz])

----------------------------------------------------------------------------
(* The callback document *)

\* An element: its name, its text (.string; PyNone for an empty element or
\* one that holds elements) and its children.  A text node between two
\*  elements (the line breaks of the document) has no name.
Tag(name, string, children) == [name |-> name, string |-> string, children |-> children]
Leaf(name, cs) == Tag(name, PyStr(cs), <<>>)
Text == [text |-> <<"\n">>]
IsTag(node) == "name" \in DOMAIN node

N_DocuSignEnvelopeInformation == <<"D", "o", "c", "u", "S", "i", "g", "n", "E", "n", "v", "e", "l", "o", "p", "e", "I", "n", "f", "o", "r", "m", "a", "t", "i", "o", "n">>
N_EnvelopeStatus == <<"E", "n", "v", "e", "l", "o", "p", "e", "S", "t", "a", "t", "u", "s">>
N_RecipientStatuses == <<"R", "e", "c", "i", "p", "i", "e", "n", "t", "S", "t", "a", "t", "u", "s", "e", "s">>
N_RecipientStatus == <<"R", "e", "c", "i", "p", "i", "e", "n", "t", "S", "t", "a", "t", "u", "s">>
N_TimeZoneOffset == <<"T", "i", "m", "e", "Z", "o", "n", "e", "O", "f", "f", "s", "e", "t">>
N_ClientUserId == <<"C", "l", "i", "e", "n", "t", "U", "s", "e", "r", "I", "d">>
N_RecipientId == <<"R", "e", "c", "i", "p", "i", "e", "n", "t", "I", "d">>
N_RoutingOrder == <<"R", "o", "u", "t", "i", "n", "g", "O", "r", "d", "e", "r">>
N_Status == <<"S", "t", "a", "t", "u", "s">>

ENVELOPE_STATUS_CREATED == <<"C", "r", "e", "a", "t", "e", "d">>
ENVELOPE_STATUS_DRAFT == <<"D", "r", "a", "f", "t">>
ENVELOPE_STATUS_SENT == <<"S", "e", "n", "t">>
ENVELOPE_STATUS_DELIVERED == <<"D", "e", "l", "i", "v", "e", "r", "e", "d">>
ENVELOPE_STATUS_COMPLETED == <<"C", "o", "m", "p", "l", "e", "t", "e", "d">>
ENVELOPE_STATUS_DECLINED == <<"D", "e", "c", "l", "i", "n", "e", "d">>
ENVELOPE_STATUS_VOIDED == <<"V", "o", "i", "d", "e", "d">>
ENVELOPE_STATUS_LIST == <<
    ENVELOPE_STATUS_CREATED,
    ENVELOPE_STATUS_SENT,
    ENVELOPE_STATUS_DELIVERED,
    ENVELOPE_STATUS_COMPLETED,
    ENVELOPE_STATUS_DECLINED,
    ENVELOPE_STATUS_VOIDED >>

RECIPIENT_STATUS_AUTHENTICATION_FAILED == <<"A", "u", "t", "h", "e", "n", "t", "i", "c", "a", "t", "i", "o", "n", "F", "a", "i", "l", "e", "d">>
RECIPIENT_STATUS_AUTO_RESPONDED == <<"A", "u", "t", "o", "R", "e", "s", "p", "o", "n", "d", "e", "d">>
RECIPIENT_STATUS_SIGNED == <<"S", "i", "g", "n", "e", "d">>
RECIPIENT_STATUS_COMPLETED == <<"C", "o", "m", "p", "l", "e", "t", "e", "d">>
RECIPIENT_STATUS_DECLINED == <<"D", "e", "c", "l", "i", "n", "e", "d">>
RECIPIENT_STATUS_DELIVERED == <<"D", "e", "l", "i", "v", "e", "r", "e", "d">>
RECIPIENT_STATUS_SENT == <<"S", "e", "n", "t">>
RECIPIENT_STATUS_LIST == <<
    RECIPIENT_STATUS_AUTHENTICATION_FAILED,
    RECIPIENT_STATUS_AUTO_RESPONDED,
    RECIPIENT_STATUS_SIGNED,
    RECIPIENT_STATUS_COMPLETED,
    RECIPIENT_STATUS_DECLINED,
    RECIPIENT_STATUS_DELIVERED,
    RECIPIENT_STATUS_SENT >>

\* tag.find(name, recursive=False): the first child element of that name
RECURSIVE FindChild(_, _)
FindChild(children, name) ==
    IF children = <<>> THEN PyNone
    ELSE IF IsTag(Head(children)) /\ Head(children).name = name THEN Head(children)
    ELSE FindChild(Tail(children), name)

\* tag.Name, i.e. tag.find(name): the first element of that name below the
\* tag, at any depth, in document order
RECURSIVE FindRecursive(_, _)
FindRecursive(children, name) ==
    IF children = <<>> THEN PyNone
    ELSE LET c == Head(children)
         IN  IF IsTag(c) /\ c.name = name THEN c
             ELSE LET below == IF IsTag(c) THEN FindRecursive(c.children, name)
                               ELSE PyNone
                  IN  IF below # PyNone THEN below
                      ELSE FindRecursive(Tail(children), name)

\* self.xml_soup.EnvelopeStatus
EnvelopeStatus(soup) == FindRecursive(soup.children, N_EnvelopeStatus)

\* self.xml_soup.EnvelopeStatus.RecipientStatuses.children
RecipientStatusesChildren(soup) ==
    FindRecursive(EnvelopeStatus(soup).children, N_RecipientStatuses).children

----------------------------------------------------------------------------
(* DocuSignCallbackParser *)

\* None.string, the tag having no such element
NoneHasNoString ==
    RaiseMessage("AttributeError",
        <<"'", "N", "o", "n", "e", "T", "y", "p", "e", "'", " ", "o", "b",
          "j", "e", "c", "t", " ", "h", "a", "s", " ", "n", "o", " ", "a",
          "t", "t", "r", "i", "b", "u", "t", "e", " ", "'", "s", "t", "r",
          "i", "n", "g", "'">>)

\* ValueError('Could not read envelope status from XML.')
CouldNotReadStatus ==
    RaiseMessage("ValueError",
        <<"C", "o", "u", "l", "d", " ", "n", "o", "t", " ", "r", "e", "a",
          "d", " ", "e", "n", "v", "e", "l", "o", "p", "e", " ", "s", "t",
          "a", "t", "u", "s", " ", "f", "r", "o", "m", " ", "X", "M", "L",
          ".">>)

\* ValueError('Unknown status {status}'.format(status=status))
UnknownStatus(status) ==
    RaiseMessage("ValueError",
        <<"U", "n", "k", "n", "o", "w", "n", " ", "s", "t", "a", "t", "u",
          "s", " ">> \o format(status))

envelope_status(soup) ==
    LET node == FindRecursive(EnvelopeStatus(soup).children, N_Status)
    IN  IF node = PyNone THEN NoneHasNoString
        ELSE IF node.string = PyNone THEN CouldNotReadStatus
        ELSE IF ~Occurs(ENVELOPE_STATUS_LIST, node.string.str)
             THEN UnknownStatus(node.string)
        ELSE Return(node.string)

timezone_offset(soup) ==
    LET node == FindRecursive(soup.children, N_TimeZoneOffset)
    IN  IF node = PyNone THEN NoneHasNoString
        ELSE int(node.string)

datetime(soup, value) ==
    LET offset == timezone_offset(soup)
    IN  IF IsRaise(offset) THEN offset
        ELSE parse(format(value) \o format(PyInt(offset.ret)))

envelope_status_datetime(soup, status) ==
    LET status_attr == title(status)
        status_soup == FindChild(EnvelopeStatus(soup).children, status_attr)
    IN  IF status_soup # PyNone THEN datetime(soup, status_soup.string)
        ELSE Return(PyNone)

\* recipient_soup.Name.string inside try / except AttributeError: the text
\* of the element, or NoAttribute when the node is a text node or has no
\* such element
NoAttribute == [attribute_error |-> TRUE]
ChildString(recipient_soup, name) ==
    IF ~IsTag(recipient_soup) THEN NoAttribute
    ELSE LET node == FindRecursive(recipient_soup.children, name)
         IN  IF node = PyNone THEN NoAttribute ELSE node.string

RECURSIVE RecipientStatusDatetimeFrom(_, _, _, _)
RecipientStatusDatetimeFrom(soup, nodes, recipient_id, status_attr) ==
    IF nodes = <<>> THEN Return(PyNone)
    ELSE LET recipient_soup == Head(nodes)
             current_recipient_id == ChildString(recipient_soup, N_ClientUserId)
         IN  IF current_recipient_id # NoAttribute /\ recipient_id = current_recipient_id
             THEN LET status_soup == FindChild(recipient_soup.children, status_attr)
                  IN  IF status_soup # PyNone THEN datetime(soup, status_soup.string)
                      ELSE Return(PyNone)
             ELSE RecipientStatusDatetimeFrom(soup, Tail(nodes), recipient_id, status_attr)

recipient_status_datetime(soup, recipient_id, status) ==
    RecipientStatusDatetimeFrom(soup, RecipientStatusesChildren(soup),
                                recipient_id, title(status))

\* the second a datetime falls in, counted from the first prefix: an
\* offset-aware datetime is compared in UTC, a naive one as written (the
\* datetimes of one document are all aware or all naive)
UtcSecond(dt) ==
    LET shift == IF dt.tzoffset = PyNone THEN 0 ELSE dt.tzoffset.int * 3600
    IN  Prefixes[dt.prefix].minute * 60 + dt.second - shift

cmp(a, b) == IF a < b THEN 0 - 1 ELSE IF a > b THEN 1 ELSE 0

\* cmp of two datetimes: by second, then by microsecond
cmp_datetime(a, b) ==
    IF UtcSecond(a) # UtcSecond(b) THEN cmp(UtcSecond(a), UtcSecond(b))
    ELSE cmp(a.microsecond, b.microsecond)

cmp_events(left, right) == cmp_datetime(left.datetime, right.datetime)

\* list.sort(cmp) / sorted(list, cmp): a stable sort.  compared[j][i] is
\* cmp(list[j], list[i]).  An element goes after the elements that compare
\* smaller and after the equal ones that precede it.
sort(list, compared) ==
    LET n == Len(list)
        rank == [i \in 1..n |-> 1 + Cardinality({j \in 1..n :
                                    \/ compared[j][i] < 0
                                    \/ compared[j][i] = 0 /\ j < i})]
    IN  [p \in 1..n |-> list[CHOOSE i \in 1..n : rank[i] = p]]

\* events.sort(self.cmp_events)
SortEvents(found) ==
    sort(found, [j \in 1..Len(found) |-> [i \in 1..Len(found) |->
                    cmp_events(found[j], found[i])]])

\* The value of an outcome that is known to be one value; it serves to
\* compute an outcome once where the code computes it once:
\*     Only({f(x) : x \in {e}})   is   x = e; f(x)
Only(outcomes) == CHOOSE outcome \in outcomes : TRUE

RECURSIVE EnvelopeEventsFrom(_, _, _)
EnvelopeEventsFrom(soup, i, found) ==
    IF i > Len(ENVELOPE_STATUS_LIST) THEN Return(found)
    ELSE LET status == ENVELOPE_STATUS_LIST[i]
             instant == envelope_status_datetime(soup, status)
         IN  IF IsRaise(instant) THEN instant
             ELSE IF instant.ret # PyNone
                  THEN EnvelopeEventsFrom(soup, i + 1,
                           Append(found, [datetime |-> instant.ret, status |-> status]))
             ELSE EnvelopeEventsFrom(soup, i + 1, found)

envelope_events(soup) ==
    Only({IF IsRaise(found) THEN found ELSE Return(SortEvents(found.ret)) :
            found \in {EnvelopeEventsFrom(soup, 1, <<>>)}})

RECURSIVE RecipientNodeEvents(_, _, _, _, _)
RecipientNodeEvents(soup, recipient_id, client_user_id, i, found) ==
    IF i > Len(RECIPIENT_STATUS_LIST) THEN Return(found)
    ELSE LET status == RECIPIENT_STATUS_LIST[i]
             instant == recipient_status_datetime(soup, client_user_id, status)
         IN  IF IsRaise(instant) THEN instant
             ELSE IF instant.ret # PyNone
                  THEN RecipientNodeEvents(soup, recipient_id, client_user_id, i + 1,
                           Append(found, [datetime |-> instant.ret,
                                          status |-> status,
                                          recipient |-> client_user_id,
                                          recipientId |-> recipient_id,
                                          clientUserId |-> client_user_id]))
             ELSE RecipientNodeEvents(soup, recipient_id, client_user_id, i + 1, found)

RECURSIVE RecipientEventsFrom(_, _, _)
RecipientEventsFrom(soup, nodes, found) ==
    IF nodes = <<>> THEN Return(found)
    ELSE LET recipient_soup == Head(nodes)
             recipient_id == ChildString(recipient_soup, N_RecipientId)
             client_user_id == ChildString(recipient_soup, N_ClientUserId)
         IN  IF recipient_id = NoAttribute \/ client_user_id = NoAttribute
             THEN RecipientEventsFrom(soup, Tail(nodes), found)
             ELSE LET more == RecipientNodeEvents(soup, recipient_id, client_user_id,
                                                  1, found)
                  IN  IF IsRaise(more) THEN more
                      ELSE RecipientEventsFrom(soup, Tail(nodes), more.ret)

recipient_events(soup) ==
    Only({IF IsRaise(found) THEN found ELSE Return(SortEvents(found.ret)) :
            found \in {RecipientEventsFrom(soup, RecipientStatusesChildren(soup), <<>>)}})

\* event['object'] = ..., event['recipient'] = ...
EnvelopeTagged(event) ==
    [datetime |-> event.datetime, status |-> event.status,
     object |-> "envelope", recipient |-> PyNone]
RecipientTagged(event) ==
    [datetime |-> event.datetime, status |-> event.status,
     recipient |-> event.recipient, recipientId |-> event.recipientId,
     clientUserId |-> event.clientUserId, object |-> "recipient"]

\* events without the final sort: the envelope's events, then the recipients'
events_concatenated(soup) ==
    Only({IF IsRaise(of_envelope) THEN of_envelope
          ELSE IF IsRaise(of_recipients) THEN of_recipients
          ELSE Return(
                   [i \in 1..Len(of_envelope.ret) |-> EnvelopeTagged(of_envelope.ret[i])]
                   \o [i \in 1..Len(of_recipients.ret) |->
                          RecipientTagged(of_recipients.ret[i])]) :
            of_envelope \in {envelope_events(soup)},
            of_recipients \in {recipient_events(soup)}})

events(soup) ==
    Only({IF IsRaise(of_envelope) THEN of_envelope
          ELSE IF IsRaise(of_recipients) THEN of_recipients
          ELSE Only({Return(SortEvents(found)) :
                  found \in {[i \in 1..Len(of_envelope.ret) |->
                                 EnvelopeTagged(of_envelope.ret[i])]
                             \o [i \in 1..Len(of_recipients.ret) |->
                                    RecipientTagged(of_recipients.ret[i])]}}) :
            of_envelope \in {envelope_events(soup)},
            of_recipients \in {recipient_events(soup)}})

\* a dict as a function from keys to values; dict[key] = value
DictSet(dict, key, value) ==
    [k \in DOMAIN dict \cup {key} |-> IF k = key THEN value ELSE dict[k]]
EmptyDict == [k \in {} |-> PyNone]

\* "Assign": recipient[child_soup.name] = child_soup.string for each child
\* element whose text is not None
RECURSIVE AssignChildren(_, _)
AssignChildren(children, recipient) ==
    IF children = <<>> THEN recipient
    ELSE LET child_soup == Head(children)
         IN  IF ~IsTag(child_soup) \/ child_soup.string = PyNone
             THEN AssignChildren(Tail(children), recipient)
             ELSE AssignChildren(Tail(children),
                                 DictSet(recipient, child_soup.name, child_soup.string))

\* "Transform", second part: for each known status, replace the text of its
\* entry by its datetime; Completed is read from the Signed entry; a missing
\* entry (KeyError) is skipped
RECURSIVE TransformStatuses(_, _, _)
TransformStatuses(soup, i, recipient) ==
    IF i > Len(RECIPIENT_STATUS_LIST) THEN Return(recipient)
    ELSE LET status == RECIPIENT_STATUS_LIST[i]
             key == IF status = RECIPIENT_STATUS_COMPLETED
                    THEN RECIPIENT_STATUS_SIGNED ELSE status
         IN  IF key \notin DOMAIN recipient
             THEN TransformStatuses(soup, i + 1, recipient)
             ELSE LET instant == datetime(soup, recipient[key])
                  IN  IF IsRaise(instant) THEN instant
                      ELSE TransformStatuses(soup, i + 1,
                               DictSet(recipient, status, instant.ret))

\* one recipient dict of a RecipientStatus element
RecipientDict(soup, recipient_soup) ==
    LET assigned == AssignChildren(recipient_soup.children, EmptyDict)
    IN  IF N_RoutingOrder \notin DOMAIN assigned THEN Raise("KeyError")
        ELSE LET order == int(assigned[N_RoutingOrder])
             IN  IF IsRaise(order) THEN order
                 ELSE TransformStatuses(soup, 1,
                          DictSet(assigned, N_RoutingOrder, PyInt(order.ret)))

RECURSIVE RecipientDictsFrom(_, _, _)
RecipientDictsFrom(soup, nodes, found) ==
    IF nodes = <<>> THEN Return(found)
    ELSE IF ~IsTag(Head(nodes)) THEN RecipientDictsFrom(soup, Tail(nodes), found)
    ELSE LET recipient == RecipientDict(soup, Head(nodes))
         IN  IF IsRaise(recipient) THEN recipient
             ELSE RecipientDictsFrom(soup, Tail(nodes), Append(found, recipient.ret))

cmp_routing_order(a, b) == cmp(a[N_RoutingOrder].int, b[N_RoutingOrder].int)

\* OrderedDict(pairs): a key keeps the place of its first pair and the value
\* of its last pair.  The result is the sequence of its items.
RECURSIVE OrderedDict(_, _)
OrderedDict(pairs, items) ==
    IF pairs = <<>> THEN items
    ELSE LET pair == Head(pairs)
             at == {i \in 1..Len(items) : items[i].key = pair.key}
         IN  IF at = {} THEN OrderedDict(Tail(pairs), Append(items, pair))
             ELSE OrderedDict(Tail(pairs),
                      [i \in 1..Len(items) |-> IF i \in at THEN pair ELSE items[i]])

recipients(soup) ==
    Only({IF IsRaise(found) THEN found
          ELSE Only({IF \E i \in 1..Len(sorted) : N_ClientUserId \notin DOMAIN sorted[i]
                     THEN Raise("KeyError")
                     ELSE Return(OrderedDict(
                              [i \in 1..Len(sorted) |->
                                  [key |-> sorted[i][N_ClientUserId], value |-> sorted[i]]],
                              <<>>)) :
                  sorted \in {sort(found.ret,
                                   [j \in 1..Len(found.ret) |-> [i \in 1..Len(found.ret) |->
                                       cmp_routing_order(found.ret[j], found.ret[i])]])}}) :
            found \in {RecipientDictsFrom(soup, RecipientStatusesChildren(soup), <<>>)}})

----------------------------------------------------------------------------
(* Recipients: Signer and Role objects *)

\* an attribute the object does not have
Unset == [unset |-> TRUE]

\* Signer(): the defaults of Signer.__init__
NewSigner ==
    [class |-> "Signer",
     clientUserId |-> PyNone,
     email |-> PyStr(<<>>),
     emailBody |-> PyNone,
     emailSubject |-> PyNone,
     supportedLanguage |-> PyNone,
     name |-> PyStr(<<>>),
     recipientId |-> PyNone,
     routingOrder |-> PyInt(0),
     tabs |-> <<>>,
     userId |-> PyNone,
     accessCode |-> PyNone,
     roleName |-> Unset]

\* Role(): the defaults of Role.__init__
NewRole ==
    [class |-> "Role",
     clientUserId |-> PyNone,
     email |-> PyStr(<<>>),
     emailBody |-> PyNone,
     emailSubject |-> PyNone,
     supportedLanguage |-> PyNone,
     name |-> PyStr(<<>>),
     recipientId |-> Unset,
     routingOrder |-> Unset,
     tabs |-> Unset,
     userId |-> PyNone,
     accessCode |-> Unset,
     roleName |-> PyStr(<<>>)]

\* Tab.tabs_name of the two tab classes
tabs_name(class) ==
    IF class = "SignHereTab" THEN "signHereTabs" ELSE "approveTabs"

\* PositionnedTab.__init__: recipientId is accepted and not kept
PositionnedTab(class, documentId, pageNumber, xPosition, yPosition, recipientId) ==
    [class |-> class, tabs_name |-> tabs_name(class),
     documentId |-> documentId, pageNumber |-> pageNumber,
     xPosition |-> xPosition, yPosition |-> yPosition]

\* SignHereTab(documentId=1, pageNumber=1, xPosition=100, yPosition=100)
SignHereTab ==
    PositionnedTab("SignHereTab", PyInt(1), PyInt(1), PyInt(100), PyInt(100), PyNone)

\* dict.get(key, default)
Get(dict, key, default) == IF key \in DOMAIN dict THEN dict[key] ELSE default

\* MatchIndex without the test "if client_user_id:": a record without a
\* clientUserId takes the first local recipient that has none either
MatchIndexOfAnyId(objects, initial_recipients, client_user_id) ==
    LET matching == {index \in 1..Len(initial_recipients) :
                        objects[initial_recipients[index]].clientUserId = client_user_id}
    IN  IF matching = {} THEN 0
        ELSE CHOOSE index \in matching : \A other \in matching : index <= other

\* MatchIndex that keeps the last match of the loop (no break)
MatchIndexLast(objects, initial_recipients, client_user_id) ==
    LET matching == {index \in 1..Len(initial_recipients) :
                        objects[initial_recipients[index]].clientUserId = client_user_id}
    IN  IF ~Truthy(client_user_id) \/ matching = {} THEN 0
        ELSE CHOOSE index \in matching : \A other \in matching : index >= other

\* the index of the first recipient of the list whose clientUserId equals
\* client_user_id, 0 when there is none; the list is searched only for a
\* true client_user_id
MatchIndex(objects, initial_recipients, client_user_id) ==
    LET matching == {index \in 1..Len(initial_recipients) :
                        objects[initial_recipients[index]].clientUserId = client_user_id}
    IN  IF ~Truthy(client_user_id) \/ matching = {} THEN 0
        ELSE CHOOSE index \in matching : \A other \in matching : index <= other

\* Overwrite without the assignment of recipient.clientUserId
OverwriteButClientUserId(recipient, recipient_data, routingOrder) ==
    [recipient EXCEPT
        !.routingOrder = PyInt(routingOrder),
        !.name = Get(recipient_data, "name", PyStr(<<>>)),
        !.userId = Get(recipient_data, "userId", PyNone),
        !.recipientId = Get(recipient_data, "recipientId", PyNone),
        !.email = Get(recipient_data, "email", PyNone),
        !.roleName = Get(recipient_data, "roleName", PyNone)]

\* Overwrite without the assignment of recipient.email
OverwriteButEmail(recipient, recipient_data, routingOrder) ==
    [recipient EXCEPT
        !.routingOrder = PyInt(routingOrder),
        !.name = Get(recipient_data, "name", PyStr(<<>>)),
        !.userId = Get(recipient_data, "userId", PyNone),
        !.recipientId = Get(recipient_data, "recipientId", PyNone),
        !.clientUserId = Get(recipient_data, "clientUserId", PyNone),
        !.roleName = Get(recipient_data, "roleName", PyNone)]

\* the attributes get_recipients() writes from one signer record
Overwrite(recipient, recipient_data, routingOrder) ==
    [recipient EXCEPT
        !.routingOrder = PyInt(routingOrder),
        !.name = Get(recipient_data, "name", PyStr(<<>>)),
        !.userId = Get(recipient_data, "userId", PyNone),
        !.recipientId = Get(recipient_data, "recipientId", PyNone),
        !.clientUserId = Get(recipient_data, "clientUserId", PyNone),
        !.email = Get(recipient_data, "email", PyNone),
        !.roleName = Get(recipient_data, "roleName", PyNone)]

\* One pass of the loop over data['signers'].  st holds the objects, the
\* list initial_recipients (shrunk in place by del), synced_recipients and
\* the exception raised, if any.  The Signer() made for a record that
\* matches a local recipient is dropped at once and is not kept here.
SyncOne(st, recipient_data) ==
    LET client_user_id == Get(recipient_data, "clientUserId", PyNone)
        index == MatchIndex(st.objects, st.initial_recipients, client_user_id)
        recipient == IF index = 0 THEN Len(st.objects) + 1
                     ELSE st.initial_recipients[index]
        objects == IF index = 0 THEN Append(st.objects, NewSigner) ELSE st.objects
        remaining == IF index = 0 THEN st.initial_recipients
                     ELSE SubSeq(st.initial_recipients, 1, index - 1)
                          \o SubSeq(st.initial_recipients, index + 1,
                                    Len(st.initial_recipients))
        routingOrder == int(Get(recipient_data, "routingOrder", PyInt(1)))
    IN  IF IsRaise(routingOrder)
        THEN [st EXCEPT !.objects = objects, !.initial_recipients = remaining,
                        !.raised = routingOrder]
        ELSE [objects |-> [objects EXCEPT ![recipient] =
                              Overwrite(@, recipient_data, routingOrder.ret)],
              initial_recipients |-> remaining,
              synced_recipients |-> Append(st.synced_recipients, recipient),
              raised |-> st.raised]

RECURSIVE SyncFrom(_, _)
SyncFrom(st, signers) ==
    IF signers = <<>> \/ st.raised # PyNone THEN st
    ELSE SyncFrom(SyncOne(st, Head(signers)), Tail(signers))

\* cmp_recipients with its arguments exchanged
cmp_recipients_descending(objects, a, b) ==
    cmp(objects[b].routingOrder.int, objects[a].routingOrder.int)

cmp_recipients(objects, a, b) ==
    cmp(objects[a].routingOrder.int, objects[b].routingOrder.int)

\* Envelope.get_recipients(), given the answer of
\* client.get_envelope_recipients(): the envelope and the objects afterwards,
\* synced_recipients before the sort, and the outcome
get_recipients(env, objects, data) ==
    LET template == Truthy(env.templateId)
        st == SyncFrom([objects |-> objects,
                        initial_recipients |->
                            IF template THEN env.templateRoles ELSE env.recipients,
                        synced_recipients |-> <<>>,
                        raised |-> PyNone],
                       Get(data, "signers", <<>>))
        shrunk == IF template
                  THEN [env EXCEPT !.templateRoles = st.initial_recipients]
                  ELSE [env EXCEPT !.recipients = st.initial_recipients]
    IN  IF st.raised # PyNone
        THEN [envelope |-> shrunk, objects |-> st.objects,
              synced_recipients |-> st.synced_recipients, result |-> st.raised]
        ELSE [envelope |-> [shrunk EXCEPT !.recipients =
                               sort(st.synced_recipients,
                                    [j \in 1..Len(st.synced_recipients) |->
                                        [i \in 1..Len(st.synced_recipients) |->
                                            cmp_recipients(st.objects,
                                                           st.synced_recipients[j],
                                                           st.synced_recipients[i])]])],
              objects |-> st.objects,
              synced_recipients |-> st.synced_recipients,
              result |-> Return(PyNone)]

----------------------------------------------------------------------------
(* Serialization: to_dict() *)

PyBool(b) == [bool |-> b]

\* DEFAULT_ENVELOPE_EVENTS and DEFAULT_RECIPIENT_EVENTS
EventsOf(code, statuses) ==
    [i \in 1..Len(statuses) |->
        IF code = "envelopeEventStatusCode"
        THEN [envelopeEventStatusCode |-> PyStr(statuses[i]),
              includeDocuments |-> PyBool(FALSE)]
        ELSE [recipientEventStatusCode |-> PyStr(statuses[i]),
              includeDocuments |-> PyBool(FALSE)]]
\* the same list with the draft status alone left out
EventsOfNonDraft ==
    EventsOf("envelopeEventStatusCode",
             SelectSeq(ENVELOPE_STATUS_LIST,
                       LAMBDA event : event # ENVELOPE_STATUS_DRAFT))
DEFAULT_ENVELOPE_EVENTS ==
    EventsOf("envelopeEventStatusCode",
             SelectSeq(ENVELOPE_STATUS_LIST,
                       LAMBDA event : event \notin {ENVELOPE_STATUS_CREATED,
                                                    ENVELOPE_STATUS_DRAFT}))
DEFAULT_RECIPIENT_EVENTS ==
    EventsOf("recipientEventStatusCode",
             SelectSeq(RECIPIENT_STATUS_LIST,
                       LAMBDA event : event # RECIPIENT_STATUS_SIGNED))

\* Document(documentId, name, data)
NewDocument(documentId, name, data) ==
    [class |-> "Document", documentId |-> documentId, name |-> name, data |-> data]

\* EventNotification(url): the defaults of EventNotification.__init__
NewEventNotification(url) ==
    [class |-> "EventNotification",
     url |-> url,
     loggingEnabled |-> PyBool(TRUE),
     requireAcknoledgement |-> PyBool(TRUE),
     useSoapInterface |-> PyBool(FALSE),
     soapNameSpace |-> PyStr(<<>>),
     includeCertificateWithSoap |-> PyBool(FALSE),
     signMessageWithX509Cert |-> PyBool(FALSE),
     includeDocuments |-> PyBool(FALSE),
     includeTimeZone |-> PyBool(TRUE),
     includeSenderAccountAsCustomField |-> PyBool(TRUE),
     envelopeEvents |-> DEFAULT_ENVELOPE_EVENTS,
     recipientEvents |-> DEFAULT_RECIPIENT_EVENTS]

\* Envelope(): the defaults of Envelope.__init__ and of the class; the empty
\* dict of recipients is iterated like an empty list
NewEnvelope ==
    [class |-> "Envelope",
     documents |-> <<>>,
     emailBlurb |-> PyStr(<<>>),
     emailSubject |-> PyStr(<<>>),
     eventNotification |-> PyNone,
     recipients |-> <<>>,
     templateId |-> PyNone,
     templateRoles |-> PyNone,
     status |-> PyStr(ENVELOPE_STATUS_SENT),
     envelopeId |-> PyNone,
     client |-> PyNone]

\* the class attribute "attributes"
attributes(class) ==
    CASE class \in {"SignHereTab", "ApproveTab"} ->
            <<"documentId", "pageNumber", "xPosition", "yPosition">>
      [] class = "Signer" ->
            <<"clientUserId", "email", "emailBody", "emailSubject", "name",
              "recipientId", "routingOrder", "supportedLanguage", "tabs",
              "accessCode">>
      [] class = "Role" ->
            <<"clientUserId", "email", "emailBody", "emailSubject", "name",
              "supportedLanguage", "roleName">>
      [] class = "Document" -> <<"documentId", "name">>
      [] class = "EventNotification" ->
            <<"url", "loggingEnabled", "requireAcknoledgement",
              "useSoapInterface", "soapNameSpace", "includeCertificateWithSoap",
              "signMessageWithX509Cert", "includeDocuments", "includeTimeZone",
              "includeSenderAccountAsCustomField", "envelopeEvents",
              "recipientEvents">>
      [] class = "Envelope" ->
            <<"documents", "emailBlurb", "emailSubject", "eventNotification",
              "recipients", "templateId", "templateRoles", "status">>

\* DocuSignObject.to_dict: dict([(k, getattr(self, k)) for k in self.attributes])
DocuSignObject_to_dict(self) ==
    [k \in {attributes(self.class)[i] : i \in 1..Len(attributes(self.class))} |->
        self[k]]

\* the loop with data['tabs'][tab.tabs_name] = [tab.to_dict()] in the place of
\* setdefault and append: each name keeps its last tab alone
TabsFromLast(tabs, data_tabs) ==
    [name \in {tabs[i].tabs_name : i \in 1..Len(tabs)} |->
        LET last == CHOOSE i \in 1..Len(tabs) :
                        /\ tabs[i].tabs_name = name
                        /\ \A j \in i + 1..Len(tabs) : tabs[j].tabs_name # name
        IN  <<DocuSignObject_to_dict(tabs[last])>>]

\* the loop of Signer.to_dict over self.tabs:
\* data['tabs'].setdefault(tab.tabs_name, []), then append(tab.to_dict())
RECURSIVE TabsFrom(_, _)
TabsFrom(tabs, data_tabs) ==
    IF tabs = <<>> THEN data_tabs
    ELSE LET tab == Head(tabs)
         IN  TabsFrom(Tail(tabs),
                      DictSet(data_tabs, tab.tabs_name,
                              Append(Get(data_tabs, tab.tabs_name, <<>>),
                                     DocuSignObject_to_dict(tab))))

\* data['emailNotification'] with the fields that are set alone
emailNotificationOfSet(self) ==
    LET set == {field \in {"emailBody", "emailSubject", "supportedLanguage"} :
                   Truthy(self[field])}
    IN  IF set = {} THEN PyNone ELSE [field \in set |-> self[field]]

\* data['emailNotification'] of Signer.to_dict and Role.to_dict
emailNotification(self) ==
    IF Truthy(self.emailBody) \/ Truthy(self.emailSubject)
       \/ Truthy(self.supportedLanguage)
    THEN [emailBody |-> self.emailBody,
          emailSubject |-> self.emailSubject,
          supportedLanguage |-> self.supportedLanguage]
    ELSE PyNone

Signer_to_dict(self) ==
    [clientUserId |-> self.clientUserId,
     email |-> self.email,
     emailNotification |-> emailNotification(self),
     name |-> self.name,
     recipientId |-> self.recipientId,
     routingOrder |-> self.routingOrder,
     tabs |-> TabsFrom(self.tabs, EmptyDict),
     accessCode |-> self.accessCode]

Role_to_dict(self) ==
    [clientUserId |-> self.clientUserId,
     email |-> self.email,
     emailNotification |-> emailNotification(self),
     name |-> self.name,
     roleName |-> self.roleName]

\* the loops of Envelope.to_dict: the to_dict() of the elements of the list
\* that are instances of the class, in the order of the list
RECURSIVE InstancesToDict(_, _, _)
InstancesToDict(objects, list, class) ==
    IF list = <<>> THEN <<>>
    ELSE LET element == objects[Head(list)]
         IN  (IF element.class # class THEN <<>>
              ELSE IF class = "Role" THEN <<Role_to_dict(element)>>
              ELSE <<Signer_to_dict(element)>>)
             \o InstancesToDict(objects, Tail(list), class)

\* Envelope.to_dict() left to DocuSignObject.to_dict: every attribute of the
\* class, as it is
Envelope_to_dict_inherited(objects, self) == Return(DocuSignObject_to_dict(self))

\* Envelope.to_dict(); iterating templateRoles = None raises TypeError
Envelope_to_dict(objects, self) ==
    LET data == [status |-> self.status,
                 emailBlurb |-> self.emailBlurb,
                 emailSubject |-> self.emailSubject]
        notified == IF self.eventNotification # PyNone
                    THEN DictSet(data, "eventNotification",
                                 DocuSignObject_to_dict(self.eventNotification))
                    ELSE data
    IN  IF Truthy(self.templateId)
        THEN IF IsNone(self.templateRoles) THEN Raise("TypeError")
             ELSE Return(DictSet(DictSet(notified, "templateId", self.templateId),
                                 "templateRoles",
                                 InstancesToDict(objects, self.templateRoles, "Role")))
        ELSE Return(DictSet(DictSet(notified, "documents",
                                    [i \in 1..Len(self.documents) |->
                                        DocuSignObject_to_dict(self.documents[i])]),
                            "recipients",
                            [signers |-> InstancesToDict(objects, self.recipients,
                                                         "Signer")]))

----------------------------------------------------------------------------
(* Inputs *)

SeqsUpTo(S, n) == UNION {[1..k -> S] : k \in 0..n}

\* the elements of a document are separated by line breaks
RECURSIVE Interleave(_)
Interleave(nodes) ==
    IF nodes = <<>> THEN <<Text>> ELSE <<Text, Head(nodes)>> \o Interleave(Tail(nodes))

P1 == Prefixes[1].iso
P2 == Prefixes[2].iso
P3 == Prefixes[3].iso

\* the text of TimeZoneOffset; PyNone stands for a document without the element
Offsets == {PyStr(<<"-", "7">>), PyStr(<<"0">>), PyStr(<<"2">>), PyNone}

EnvelopeNodeNames == {ENVELOPE_STATUS_CREATED, ENVELOPE_STATUS_SENT}
EnvelopeTimestamps == {<<P1, "4", "0", ".", "5">>, <<P2, "0", "5">>}
EnvelopeLeaves == {Leaf(name, ts) : name \in EnvelopeNodeNames, ts \in EnvelopeTimestamps}
EnvelopeNodeSeqs ==
    {nodes \in SeqsUpTo(EnvelopeLeaves, MaxEnvNodes) :
        \A i, j \in 1..Len(nodes) : i # j => nodes[i].name # nodes[j].name}

\* a RecipientStatus element; PyNone for client_user_id or recipient_id
\* gives an empty element, NoAttribute leaves the element out
RecipientStatus(client_user_id, recipient_id, routing_order, statuses) ==
    Tag(N_RecipientStatus, PyNone,
        Interleave(<<Leaf(N_RoutingOrder, routing_order)>>
                   \o statuses
                   \o (IF client_user_id = NoAttribute THEN <<>>
                       ELSE <<Tag(N_ClientUserId, client_user_id, <<>>)>>)
                   \o (IF recipient_id = NoAttribute THEN <<>>
                       ELSE <<Tag(N_RecipientId, recipient_id, <<>>)>>)))

RecipientNodes == {
    RecipientStatus(PyStr(<<"a">>), PyStr(<<"r", "1">>), <<"2">>,
        <<Leaf(RECIPIENT_STATUS_SENT, <<P1, "4", "0">>)>>),
    RecipientStatus(PyStr(<<"a">>), PyStr(<<"r", "2">>), <<"1", "0">>,
        <<Leaf(RECIPIENT_STATUS_SENT, <<P1, "4", "0", ".", "5">>),
          Leaf(RECIPIENT_STATUS_SIGNED, <<P3, "0", "0", ".", "1", "2">>)>>),
    RecipientStatus(PyStr(<<"b">>), PyStr(<<"r", "3">>), <<"1", "0">>,
        <<Leaf(RECIPIENT_STATUS_COMPLETED, <<P2, "0", "5", ".", "1", "2">>),
          Leaf(RECIPIENT_STATUS_AUTHENTICATION_FAILED, <<P1, "4", "0", ".", "5">>)>>),
    RecipientStatus(PyNone, PyStr(<<"r", "4">>), <<"3">>,
        <<Leaf(RECIPIENT_STATUS_DELIVERED, <<P2, "0", "5">>)>>) }

Document(offset, envelope_nodes, recipient_nodes) ==
    Tag(N_DocuSignEnvelopeInformation, PyNone,
        Interleave(
            <<Tag(N_EnvelopeStatus, PyNone,
                  Interleave(<<Tag(N_RecipientStatuses, PyNone,
                                   Interleave(recipient_nodes))>>
                             \o envelope_nodes))>>
            \o (IF offset = PyNone THEN <<>>
                ELSE <<Tag(N_TimeZoneOffset, offset, <<>>)>>)))

Documents ==
    {Document(offset, envelope_nodes, recipient_nodes) :
        offset \in Offsets,
        envelope_nodes \in EnvelopeNodeSeqs,
        recipient_nodes \in SeqsUpTo(RecipientNodes, MaxRecipientNodes)}

\* Documents that differ in the Status elements: the one of the envelope,
\* directly under EnvelopeStatus before or after RecipientStatuses (DocuSign
\* writes it after), with a known status, an unknown one, empty (PyNone) or
\* left out (NoAttribute); and the ones of the recipients
EnvelopeStatusTexts ==
    {PyStr(ENVELOPE_STATUS_SENT),
     PyStr(<<"P", "r", "o", "c", "e", "s", "s", "i", "n", "g">>),
     PyNone,
     NoAttribute}
StatusRecipientNodes == {
    RecipientStatus(PyStr(<<"a">>), PyStr(<<"r", "1">>), <<"2">>,
        <<Leaf(N_Status, RECIPIENT_STATUS_COMPLETED),
          Leaf(RECIPIENT_STATUS_SENT, <<P1, "4", "0">>)>>),
    RecipientStatus(PyStr(<<"b">>), PyStr(<<"r", "3">>), <<"1", "0">>,
        <<Leaf(N_Status, RECIPIENT_STATUS_SIGNED)>>) }
StatusDocument(status, first, recipient_nodes) ==
    LET own == IF status = NoAttribute THEN <<>> ELSE <<Tag(N_Status, status, <<>>)>>
        below == <<Tag(N_RecipientStatuses, PyNone, Interleave(recipient_nodes))>>
    IN  Tag(N_DocuSignEnvelopeInformation, PyNone,
            Interleave(
                <<Tag(N_EnvelopeStatus, PyNone,
                      Interleave(IF first THEN own \o below ELSE below \o own))>>
                \o <<Tag(N_TimeZoneOffset, PyStr(<<"-", "7">>), <<>>)>>))
StatusDocuments ==
    {StatusDocument(status, first, recipient_nodes) :
        status \in EnvelopeStatusTexts,
        first \in BOOLEAN,
        recipient_nodes \in SeqsUpTo(StatusRecipientNodes, MaxRecipientNodes)}

\* arguments of the parser's methods
TimestampInputs ==
    {PyStr(<<P1, "4", "0">>),
     PyStr(<<P1, "4", "0", ".", "1", "2">>),
     PyStr(<<P3, "0", "5", ".", "6", "0", "7", "6", "5", "0", "8">>)}
EnvelopeStatusInputs ==
    {ENVELOPE_STATUS_CREATED, ENVELOPE_STATUS_SENT, ENVELOPE_STATUS_COMPLETED,
     <<"s", "e", "n", "t">>}
RecipientIdInputs == {PyStr(<<"a">>), PyStr(<<"b">>), PyNone}
RecipientStatusInputs ==
    {RECIPIENT_STATUS_SENT, RECIPIENT_STATUS_AUTHENTICATION_FAILED,
     <<"c", "o", "m", "p", "l", "e", "t", "e", "d">>, <<"s", "i", "g", "n", "e", "d">>}

\* the local recipients of an envelope: Signers (document mode) or Roles
\* (template mode), the k-th with its own name, email and overrides
LocalIds == {PyNone, PyStr(<<"a">>), PyStr(<<"b">>)}
LocalSigner(k, client_user_id) ==
    [NewSigner EXCEPT
        !.clientUserId = client_user_id,
        !.email = PyStr(<<"l", Digits[k + 1]>>),
        !.name = PyStr(<<"L", Digits[k + 1]>>),
        !.recipientId = PyInt(k),
        !.emailSubject = PyStr(<<"s", Digits[k + 1]>>),
        !.emailBody = PyStr(<<"b", Digits[k + 1]>>),
        !.supportedLanguage = PyStr(<<"e", "n">>),
        !.accessCode = PyStr(<<"x", Digits[k + 1]>>),
        !.tabs = <<SignHereTab>>]
LocalRole(k, client_user_id) ==
    [NewRole EXCEPT
        !.clientUserId = client_user_id,
        !.email = PyStr(<<"l", Digits[k + 1]>>),
        !.name = PyStr(<<"L", Digits[k + 1]>>),
        !.emailSubject = PyStr(<<"s", Digits[k + 1]>>),
        !.roleName = PyStr(<<"R", Digits[k + 1]>>)]

\* the signer records DocuSign may report at place k of its answer: with
\* every field, without clientUserId, with clientUserId alone, or with none
\* of the fields get_recipients() reads
RoutingOrders == {<<"2">>, <<"1", "0">>}
ServerIds == {PyStr(<<>>), PyStr(<<"a">>), PyStr(<<"b">>)}
SignerRecords(k) ==
    {[recipientId |-> PyStr(<<"3", Digits[k + 1]>>),
      userId |-> PyStr(<<"2", Digits[k + 1]>>),
      clientUserId |-> id,
      roleName |-> PyStr(<<>>),
      routingOrder |-> PyStr(order),
      email |-> PyStr(<<"e", Digits[k + 1]>>),
      name |-> PyStr(<<"N", Digits[k + 1]>>)] : id \in ServerIds, order \in RoutingOrders}
    \cup {[recipientId |-> PyStr(<<"3", Digits[k + 1]>>),
           userId |-> PyStr(<<"2", Digits[k + 1]>>),
           roleName |-> PyStr(<<>>),
           routingOrder |-> PyStr(<<"2">>),
           email |-> PyStr(<<"e", Digits[k + 1]>>),
           name |-> PyStr(<<"N", Digits[k + 1]>>)],
          [clientUserId |-> PyStr(<<"a">>)],
          [recipientIdGuid |-> PyStr(<<"g", Digits[k + 1]>>)]}

\* the answers of client.get_envelope_recipients()
Responses ==
    {[recipientCount |-> PyStr(<<"0">>)]}
    \cup UNION {{[signers |-> signers] :
                    signers \in {s \in [1..n -> UNION {SignerRecords(k) : k \in 1..n}] :
                                    \A k \in 1..n : s[k] \in SignerRecords(k)}} :
                n \in 0..MaxSigners}

----------------------------------------------------------------------------
(* The parser: one action per method or property *)

NoCall == [op |-> "none"]

\* a behaviour of the parser reads one method or property of a parser built
\* on xml_soup; the parser keeps no state between two reads
Apply(op, args, result) ==
    /\ call = NoCall
    /\ call' = [op |-> op, args |-> args, result |-> result]
    /\ UNCHANGED <<xml_soup, envelope, heap, calls, server, log>>

ReadEnvelopeStatus == Apply("envelope_status", <<>>, envelope_status(xml_soup))

TimezoneOffset == Apply("timezone_offset", <<>>, timezone_offset(xml_soup))

Datetime == \E value \in TimestampInputs :
    Apply("datetime", <<value>>, datetime(xml_soup, value))

EnvelopeStatusDatetime == \E status \in EnvelopeStatusInputs :
    Apply("envelope_status_datetime", <<status>>,
          envelope_status_datetime(xml_soup, status))

RecipientStatusDatetime ==
    \E recipient_id \in RecipientIdInputs, status \in RecipientStatusInputs :
        Apply("recipient_status_datetime", <<recipient_id, status>>,
              recipient_status_datetime(xml_soup, recipient_id, status))

EnvelopeEvents == Apply("envelope_events", <<>>, envelope_events(xml_soup))

RecipientEvents == Apply("recipient_events", <<>>, recipient_events(xml_soup))

Events == Apply("events", <<>>, events(xml_soup))

Recipients == Apply("recipients", <<>>, recipients(xml_soup))

EmptyEnvelope ==
    [recipients |-> <<>>, templateRoles |-> PyNone, templateId |-> PyNone,
     envelopeId |-> PyNone]

InitParser ==
    /\ xml_soup \in Documents \cup StatusDocuments
    /\ call = NoCall
    /\ envelope = EmptyEnvelope
    /\ heap = <<>>
    /\ calls = 0
    /\ server = [recipientCount |-> PyStr(<<"0">>)]
    /\ log = <<>>

NextParser ==
    \/ ReadEnvelopeStatus
    \/ TimezoneOffset
    \/ Datetime
    \/ EnvelopeStatusDatetime
    \/ RecipientStatusDatetime
    \/ EnvelopeEvents
    \/ RecipientEvents
    \/ Events
    \/ Recipients

SpecParser == InitParser /\ [][NextParser]_vars

----------------------------------------------------------------------------
(* The envelope *)

\* client.get_envelope_recipients(envelopeId) when the request succeeds: the
\* recipients DocuSign holds for the envelope
get_envelope_recipients == server

\* envelope.get_recipients(client)
GetRecipients ==
    LET data == get_envelope_recipients
        after == get_recipients(envelope, heap, data)
    IN  /\ calls < MaxCalls
        /\ envelope' = after.envelope
        /\ heap' = after.objects
        /\ calls' = calls + 1
        /\ call' = [op |-> "get_recipients",
                    data |-> data,
                    envelope |-> envelope,
                    heap |-> heap,
                    synced_recipients |-> after.synced_recipients,
                    result |-> after.result]
        /\ UNCHANGED <<xml_soup, server, log>>

InitEnvelope ==
    /\ xml_soup = Document(PyStr(<<"-", "7">>), <<>>, <<>>)
    /\ call = NoCall
    /\ calls = 0
    /\ server \in Responses
    /\ log = <<>>
    /\ \E n \in 0..MaxLocal : \E ids \in [1..n -> LocalIds] :
        \/ /\ heap = [k \in 1..n |-> LocalSigner(k, ids[k])]
           /\ envelope = [recipients |-> [k \in 1..n |-> k],
                          templateRoles |-> PyNone,
                          templateId |-> PyNone,
                          envelopeId |-> PyStr(<<"e", "i", "d">>)]
        \/ /\ heap = [k \in 1..n |-> LocalRole(k, ids[k])]
           /\ envelope = [recipients |-> <<>>,
                          templateRoles |-> [k \in 1..n |-> k],
                          templateId |-> PyStr(<<"t", "i", "d">>),
                          envelopeId |-> PyStr(<<"e", "i", "d">>)]

NextEnvelope == GetRecipients

SpecEnvelope == InitEnvelope /\ [][NextEnvelope]_vars

----------------------------------------------------------------------------
(* Serialization of the objects of an envelope *)

\* the longest list of tabs of a signer
MaxTabs == 3

\* SignHereTab and ApproveTab objects at two places of document 1, and
\* SignHereTab() with the defaults of PositionnedTab.__init__
TabInputs ==
    {PositionnedTab(class, PyInt(1), PyInt(1), xPosition, PyInt(100), PyNone) :
        class \in {"SignHereTab", "ApproveTab"},
        xPosition \in {PyInt(100), PyInt(200)}}
    \cup {PositionnedTab("SignHereTab", PyNone, PyInt(1), PyInt(0), PyInt(0), PyNone)}

\* the recipient with each choice of emailBody, emailSubject and
\* supportedLanguage
EmailVariants(recipient) ==
    {[recipient EXCEPT
        !.emailBody = emailBody,
        !.emailSubject = emailSubject,
        !.supportedLanguage = supportedLanguage] :
            emailBody \in {PyNone, PyStr(<<>>), PyStr(<<"b">>)},
            emailSubject \in {PyNone, PyStr(<<"s">>)},
            supportedLanguage \in {PyNone, PyStr(<<"e", "n">>)}}

\* a signer with each list of tabs
SerializedSigners ==
    {[LocalSigner(1, PyStr(<<"a">>)) EXCEPT !.tabs = tabs] :
        tabs \in SeqsUpTo(TabInputs, MaxTabs)}

\* the recipients of the envelopes that are serialized whole
EnvelopeRecipients ==
    {LocalSigner(1, PyStr(<<"a">>)),
     [NewSigner EXCEPT !.recipientId = PyInt(2),
                       !.tabs = <<PositionnedTab("ApproveTab", PyInt(1), PyInt(2),
                                                 PyInt(100), PyInt(200), PyNone)>>],
     LocalRole(2, PyStr(<<"b">>))}

\* Document(documentId=1, name='d.pdf') and Document(name='e.pdf')
DocumentLists ==
    {<<>>,
     <<NewDocument(PyInt(1), PyStr(<<"d", ".", "p", "d", "f">>), PyNone),
       NewDocument(PyNone, PyStr(<<"e", ".", "p", "d", "f">>), PyNone)>>}

\* an envelope on the recipients 1..n; templateRoles is the list of them when
\* listed, else None
EnvelopeOn(n, documents, eventNotification, templateId, listed) ==
    [NewEnvelope EXCEPT
        !.documents = documents,
        !.emailBlurb = PyStr(<<"b", "l", "u", "r", "b">>),
        !.emailSubject = PyStr(<<"s", "u", "b", "j", "e", "c", "t">>),
        !.eventNotification = eventNotification,
        !.recipients = [k \in 1..n |-> k],
        !.templateId = templateId,
        !.templateRoles = IF listed THEN [k \in 1..n |-> k] ELSE PyNone]

\* object.to_dict() is read once in a behaviour; it changes no object
Serialize(self, result) ==
    /\ call = NoCall
    /\ call' = [op |-> "to_dict", self |-> self, result |-> result]
    /\ UNCHANGED <<xml_soup, envelope, heap, calls, server, log>>

\* SignHereTab.to_dict and ApproveTab.to_dict: super().to_dict()
TabToDict ==
    \E k \in DOMAIN heap :
        /\ heap[k].class = "Signer"
        /\ \E i \in DOMAIN heap[k].tabs :
            Serialize(heap[k].tabs[i], Return(DocuSignObject_to_dict(heap[k].tabs[i])))

SignerToDict ==
    \E k \in DOMAIN heap :
        /\ heap[k].class = "Signer"
        /\ Serialize(heap[k], Return(Signer_to_dict(heap[k])))

RoleToDict ==
    \E k \in DOMAIN heap :
        /\ heap[k].class = "Role"
        /\ Serialize(heap[k], Return(Role_to_dict(heap[k])))

\* Document.to_dict: super().to_dict()
DocumentToDict ==
    \E i \in DOMAIN envelope.documents :
        Serialize(envelope.documents[i],
                  Return(DocuSignObject_to_dict(envelope.documents[i])))

\* EventNotification.to_dict: super().to_dict()
EventNotificationToDict ==
    /\ envelope.eventNotification # PyNone
    /\ Serialize(envelope.eventNotification,
                 Return(DocuSignObject_to_dict(envelope.eventNotification)))

EnvelopeToDict == Serialize(envelope, Envelope_to_dict(heap, envelope))

InitModels ==
    /\ xml_soup = Document(PyStr(<<"-", "7">>), <<>>, <<>>)
    /\ call = NoCall
    /\ calls = 0
    /\ server = [recipientCount |-> PyStr(<<"0">>)]
    /\ log = <<>>
    /\ \/ /\ heap \in {<<signer>> : signer \in SerializedSigners
                                \cup EmailVariants(LocalSigner(1, PyStr(<<"a">>)))}
          /\ envelope = [NewEnvelope EXCEPT !.recipients = <<1>>]
       \/ /\ heap \in {<<role>> : role \in EmailVariants(LocalRole(1, PyStr(<<"a">>)))}
          /\ envelope = [NewEnvelope EXCEPT !.templateId = PyStr(<<"t", "i", "d">>),
                                            !.templateRoles = <<1>>]
       \/ /\ heap \in SeqsUpTo(EnvelopeRecipients, MaxLocal)
          /\ \E documents \in DocumentLists,
                eventNotification \in {PyNone, NewEventNotification(PyStr(<<"u", "r", "l">>))},
                templateId \in {PyNone, PyStr(<<>>), PyStr(<<"t", "i", "d">>)},
                listed \in BOOLEAN :
                envelope = EnvelopeOn(Len(heap), documents, eventNotification,
                                      templateId, listed)

NextModels ==
    \/ TabToDict
    \/ SignerToDict
    \/ RoleToDict
    \/ DocumentToDict
    \/ EventNotificationToDict
    \/ EnvelopeToDict

SpecModels == InitModels /\ [][NextModels]_vars

----------------------------------------------------------------------------
(* Creation of an envelope by a client *)

\* the most documents of an envelope
MaxDocuments == 2

\* a reference to the object at place k of the heap
Ref(k) == [ref |-> k]

\* base64.b64encode(bytes): three bytes give four characters of the
\* alphabet, a last group of one or two bytes is padded with "="
B64Alphabet == UpperCase \o LowerCase \o Digits \o <<"+", "/">>
RECURSIVE b64encode(_)
b64encode(bytes) ==
    IF bytes = <<>> THEN <<>>
    ELSE IF Len(bytes) = 1
    THEN <<B64Alphabet[(bytes[1] \div 4) + 1],
           B64Alphabet[(bytes[1] % 4) * 16 + 1], "=", "=">>
    ELSE IF Len(bytes) = 2
    THEN <<B64Alphabet[(bytes[1] \div 4) + 1],
           B64Alphabet[(bytes[1] % 4) * 16 + (bytes[2] \div 16) + 1],
           B64Alphabet[(bytes[2] % 16) * 4 + 1], "=">>
    ELSE <<B64Alphabet[(bytes[1] \div 4) + 1],
           B64Alphabet[(bytes[1] % 4) * 16 + (bytes[2] \div 16) + 1],
           B64Alphabet[(bytes[2] % 16) * 4 + (bytes[3] \div 64) + 1],
           B64Alphabet[(bytes[3] % 64) + 1]>>
         \o b64encode(SubSeq(bytes, 4, Len(bytes)))

\* a file open on the content, at its start
Open(content) == [class |-> "file", content |-> content, position |-> 0]

\* file.read(): the bytes from the position to the end
read(file) == SubSeq(file.content, file.position + 1, Len(file.content))
\* the file after read(): at its end
AfterRead(file) == [file EXCEPT !.position = Len(file.content)]

\* the loop of _create_envelope_from_documents_request: the entry of each
\* document of the list, and the objects after document.data.read()
RECURSIVE ReadDocuments(_, _, _)
ReadDocuments(objects, list, documents) ==
    IF list = <<>> THEN [objects |-> objects, documents |-> documents]
    ELSE LET document == Head(list)
         IN  ReadDocuments(
                 [objects EXCEPT ![document.data] = AfterRead(objects[document.data])],
                 Tail(list),
                 Append(documents,
                        [documentId |-> document.documentId,
                         name |-> document.name,
                         fileExtension |-> PyStr(<<"p", "d", "f">>),
                         documentBase64 |->
                             PyStr(b64encode(read(objects[document.data])))]))

\* DocuSignClient._create_envelope_from_documents_request(envelope): the
\* objects afterwards and the data returned, or what to_dict() raised
create_envelope_from_documents_request(objects, env) ==
    LET data == Envelope_to_dict(objects, env)
        after == ReadDocuments(objects, env.documents, <<>>)
    IN  IF IsRaise(data) THEN [objects |-> objects, result |-> data]
        ELSE [objects |-> after.objects,
              result |-> Return(DictSet(data.ret, "documents", after.documents))]

\* DocuSignClient._create_envelope_from_template_request(envelope)
create_envelope_from_template_request(objects, env) ==
    [objects |-> objects, result |-> Envelope_to_dict(objects, env)]

\* json.dumps of a dict whose values are strings, the keys in the given order
RECURSIVE DumpItems(_, _, _)
DumpItems(keys, dict, i) ==
    IF i > Len(keys) THEN <<>>
    ELSE (IF i > 1 THEN <<", ">> ELSE <<>>)
         \o <<"\"", keys[i], "\"", ": ", "\"">> \o dict[keys[i]].str \o <<"\"">>
         \o DumpItems(keys, dict, i + 1)
json_dumps(keys, dict) == <<"{">> \o DumpItems(keys, dict, 1) \o <<"}">>

\* base_headers without the OAuth2 branch
base_headers_password(self, sobo_email) ==
    LET auth == [Username |-> self.username,
                 Password |-> self.password,
                 IntegratorKey |-> self.integrator_key]
        keys == <<"Username", "Password", "IntegratorKey">>
    IN  DictSet([Accept |-> PyStr(<<"application/json">>)]
                @@ ("Content-Type" :> PyStr(<<"application/json">>)),
                "X-DocuSign-Authentication",
                PyStr(IF Truthy(sobo_email)
                      THEN json_dumps(Append(keys, "SendOnBehalfOf"),
                                      DictSet(auth, "SendOnBehalfOf", sobo_email))
                      ELSE json_dumps(keys, auth)))

\* DocuSignClient.base_headers(sobo_email): the headers, and the keys of the
\* dict of X-DocuSign-Authentication in the order they are set
base_headers(self, sobo_email) ==
    LET headers == [Accept |-> PyStr(<<"application/json">>)]
                   @@ ("Content-Type" :> PyStr(<<"application/json">>))
    IN  IF Truthy(self.oauth2_token)
        THEN LET bearer == DictSet(headers, "Authorization",
                                   PyStr(<<"Bearer ">> \o self.oauth2_token.str))
             IN  IF Truthy(sobo_email)
                 THEN DictSet(bearer, "X-DocuSign-Act-As-User", sobo_email)
                 ELSE bearer
        ELSE LET auth == [Username |-> self.username,
                          Password |-> self.password,
                          IntegratorKey |-> self.integrator_key]
                 keys == <<"Username", "Password", "IntegratorKey">>
             IN  DictSet(headers, "X-DocuSign-Authentication",
                         PyStr(IF Truthy(sobo_email)
                               THEN json_dumps(Append(keys, "SendOnBehalfOf"),
                                               DictSet(auth, "SendOnBehalfOf",
                                                       sobo_email))
                               ELSE json_dumps(keys, auth)))

\* What the requests library gives for one request: the answer of the
\* service (its status code, its Content-Type and its body), or a
\* RequestException when there is none
Answer(status_code, content_type, text) ==
    [status_code |-> status_code, content_type |-> content_type, text |-> text]
RequestException == [exception |-> <<"ConnectionError">>]
Answered(answer) == "status_code" \in DOMAIN answer

\* the account the service reports at /login_information
AccountId == PyStr(<<"7">>)
\* the bodies of the service: the login information, a created envelope, the
\* recipients of an envelope, an error, an empty JSON object, and a page
\* that is no JSON
LoginText == <<"{\"loginAccounts\": [{\"accountId\": \"">> \o AccountId.str \o <<"\"}]}">>
EnvelopeText(envelopeId) == <<"{\"envelopeId\": \"">> \o envelopeId.str \o <<"\"}">>
RecipientsText == <<"{\"signers\": [{\"clientUserId\": \"a\", \"userId\": \"u1\"}]}">>
ErrorText == <<"{\"errorCode\": \"INVALID\"}">>
EmptyObjectText == <<"{}">>
PageText == <<"<html>">>

\* response.json(): ValueError when the body is no JSON
json_loads(text) ==
    IF text = LoginText
    THEN Return([loginAccounts |-> <<[accountId |-> AccountId]>>])
    ELSE IF Len(text) >= 2 /\ text[1] = EnvelopeText(AccountId)[1]
                           /\ text[Len(text)] = <<"\"}">>[1]
    THEN Return([envelopeId |-> PyStr(SubSeq(text, 2, Len(text) - 1))])
    ELSE IF text = RecipientsText
    THEN Return([signers |-> <<[clientUserId |-> PyStr(<<"a">>),
                                userId |-> PyStr(<<"u", "1">>)]>>])
    ELSE IF text = ErrorText
    THEN Return([errorCode |-> PyStr(<<"I", "N", "V", "A", "L", "I", "D">>)])
    ELSE IF text = EmptyObjectText THEN Return(EmptyDict)
    ELSE Raise("ValueError")

\* DocuSignClient._request(url, method, expected_status_code=...) of the
\* client self, given what the one call of requests gives: the outcome
request(self, url, method, expected_status_code, answer) ==
    LET do_url == self.root_url.str \o url
    IN  IF ~Answered(answer)
        THEN RaiseMessage("DocuSignException",
                 <<"DocuSign request error: ", method, " ">> \o do_url
                 \o <<" failed ; Error: ">> \o answer.exception)
        ELSE IF answer.status_code # expected_status_code
        THEN RaiseMessage("DocuSignException",
                 <<"DocuSign request failed: ", method, " ">> \o do_url
                 \o <<" returned code ">> \o IntStr(answer.status_code)
                 \o <<" while expecting code ">> \o IntStr(expected_status_code)
                 \o <<"; Message: ">> \o answer.text \o <<" ; ">>)
        ELSE IF answer.content_type # <<>>
                /\ answer.content_type[1] = "application/json"
        THEN json_loads(answer.text)
        ELSE Return(PyStr(answer.text))

\* one request of the client at place self as the service sees it, and what
\* came back
Sent(self, client, url, method, answer) ==
    [client |-> self,
     method |-> method,
     url |-> client.root_url.str \o url,
     headers |-> base_headers(client, PyNone),
     answer |-> answer]

AccountUrl(root_url, account_id) ==
    PyStr(root_url.str \o <<"/", "a", "c", "c", "o", "u", "n", "t", "s", "/">>
          \o format(account_id))

\* DocuSignClient.login_information(): the client afterwards and the outcome
login_information(client, answer) ==
    Only({
        IF IsRaise(data) THEN [client |-> client, result |-> data]
        ELSE IF IsStr(data.ret) THEN [client |-> client, result |-> Raise("TypeError")]
        ELSE IF "loginAccounts" \notin DOMAIN data.ret
        THEN [client |-> client, result |-> Raise("KeyError")]
        ELSE LET account_id == data.ret.loginAccounts[1].accountId
             IN  [client |-> [client EXCEPT
                                 !.account_id = account_id,
                                 !.account_url = AccountUrl(client.root_url, account_id)],
                  result |-> data]
        : data \in {request(client, <<"/login_information">>, "GET", 200, answer)}})

\* the same operation when it asks for the account each time
account_request_anew(objects, self, path, method, expected_status_code, login, answer) ==
    LET logged == login_information(objects[self], login)
        first == <<Sent(self, objects[self], <<"/login_information">>, "GET", login)>>
        url == <<"/", "a", "c", "c", "o", "u", "n", "t", "s", "/">>
               \o format(logged.client.account_id) \o path
    IN  IF IsRaise(logged.result)
        THEN [objects |-> objects, sent |-> first, result |-> logged.result]
        ELSE [objects |-> [objects EXCEPT ![self] = logged.client],
              sent |-> Append(first, Sent(self, logged.client, url, method, answer)),
              result |-> request(logged.client, url, method, expected_status_code,
                                 answer)]

\* The start of every operation on an account, and its request:
\*     if not self.account_url: self.login_information()
\*     url = '/accounts/{accountId}...'.format(accountId=self.account_id, ...)
\*     self.get / post / put / delete / _request(url, ...)
\* path is the url after the account id; login is what requests gives for
\* GET /login_information and answer what it gives for the request.  The
\* result holds the objects afterwards, the requests sent and the outcome.
account_request(objects, self, path, method, expected_status_code, login, answer) ==
    Only({
        LET first == IF logs_in
                     THEN <<Sent(self, objects[self], <<"/login_information">>,
                                 "GET", login)>>
                     ELSE <<>>
            url == <<"/", "a", "c", "c", "o", "u", "n", "t", "s", "/">>
                   \o format(logged.client.account_id) \o path
        IN  IF IsRaise(logged.result)
            THEN [objects |-> objects, sent |-> first, result |-> logged.result]
            ELSE [objects |-> [objects EXCEPT ![self] = logged.client],
                  sent |-> Append(first, Sent(self, logged.client, url, method, answer)),
                  result |-> request(logged.client, url, method,
                                     expected_status_code, answer)]
        : logs_in \in {~Truthy(objects[self].account_url)},
          logged \in {IF ~Truthy(objects[self].account_url)
                      THEN login_information(objects[self], login)
                      ELSE [client |-> objects[self], result |-> Return(PyNone)]}})

\* DocuSignClient(root_url='r', account_id=account_id, username='u',
\* password='p', integrator_key='k'), without OAuth2 token
NewClient(account_id) ==
    [class |-> "DocuSignClient",
     root_url |-> PyStr(<<"r">>),
     username |-> PyStr(<<"u">>),
     password |-> PyStr(<<"p">>),
     integrator_key |-> PyStr(<<"k">>),
     oauth2_token |-> PyStr(<<>>),
     account_id |-> account_id,
     account_url |-> IF Truthy(account_id)
                     THEN AccountUrl(PyStr(<<"r">>), account_id)
                     ELSE PyStr(<<>>)]

\* the envelope id the service gives to its n-th envelope
EnvelopeId(n) == PyStr(<<"e">> \o IntStr(n))

\* the end of _create_envelope with envelope.envelopeId assigned in each call
WriteBackAlways(env, self, envelopeId) ==
    [env EXCEPT !.client = IF ~Truthy(env.client) THEN Ref(self) ELSE @,
                !.envelopeId = envelopeId]

\* the end of _create_envelope: if not envelope.client: ...; if not
\* envelope.envelopeId: ...
WriteBack(env, self, envelopeId) ==
    [env EXCEPT !.client = IF ~Truthy(env.client) THEN Ref(self) ELSE @,
                !.envelopeId = IF ~Truthy(env.envelopeId) THEN envelopeId ELSE @]

\* _create_envelope when envelope.client is assigned before the request
create_envelope_client_first(objects, env, self, login, post) ==
    LET after == account_request(objects, self, <<"/envelopes">>, "POST", 201,
                                 login, post)
        response_data == after.result
        with_client == [env EXCEPT !.client = IF ~Truthy(@) THEN Ref(self) ELSE @]
    IN  IF IsRaise(response_data) \/ IsStr(response_data.ret)
           \/ "envelopeId" \notin DOMAIN response_data.ret
        THEN [objects |-> after.objects, envelope |-> with_client,
              sent |-> after.sent,
              result |-> IF IsRaise(response_data) THEN response_data
                         ELSE Raise("TypeError")]
        ELSE [objects |-> after.objects,
              envelope |-> WriteBack(env, self, response_data.ret.envelopeId),
              sent |-> after.sent,
              result |-> Return(response_data.ret.envelopeId)]

\* DocuSignClient._create_envelope(envelope, data) of the client at place
\* self, given what requests gives for GET /login_information and for POST
\* /envelopes: envelope.client is assigned before response_data['envelopeId']
\* is read
create_envelope(objects, env, self, login, post) ==
    Only({
        LET response_data == after.result
            with_client == [env EXCEPT !.client = IF ~Truthy(@) THEN Ref(self) ELSE @]
        IN  IF IsRaise(response_data)
            THEN [objects |-> after.objects, envelope |-> env, sent |-> after.sent,
                  result |-> response_data]
            ELSE IF IsStr(response_data.ret)
            THEN [objects |-> after.objects, envelope |-> with_client,
                  sent |-> after.sent, result |-> Raise("TypeError")]
            ELSE IF "envelopeId" \notin DOMAIN response_data.ret
            THEN [objects |-> after.objects, envelope |-> with_client,
                  sent |-> after.sent, result |-> Raise("KeyError")]
            ELSE [objects |-> after.objects,
                  envelope |-> WriteBack(env, self, response_data.ret.envelopeId),
                  sent |-> after.sent,
                  result |-> Return(response_data.ret.envelopeId)]
        : after \in {account_request(objects, self, <<"/envelopes">>, "POST", 201,
                                     login, post)}})

\* the status codes of the answers of the service
StatusCodes == {200, 201}
JSON == <<"application/json">>
\* the answer of the service to GET /login_information and to POST
\* /envelopes with a status code: the account, the envelope it has just
\* created, or an error
LoginAnswer(status_code) ==
    Answer(status_code, JSON, IF status_code = 200 THEN LoginText ELSE ErrorText)
PostAnswer(status_code, created) ==
    Answer(status_code, JSON,
           IF status_code = 201 THEN EnvelopeText(EnvelopeId(Len(created) + 1))
           ELSE ErrorText)
\* the envelopes of the service after the requests: it has one more when it
\* has answered 201 to POST /envelopes
Serviced(created, sent) ==
    IF /\ sent # <<>>
       /\ sent[Len(sent)].method = "POST"
       /\ sent[Len(sent)].answer = PostAnswer(201, created)
    THEN Append(created, EnvelopeId(Len(created) + 1))
    ELSE created

\* create_envelope_from_documents, create_envelope_from_document (its
\* deprecated name) and create_envelope_from_template, called on the envelope
\* with a client of the heap
Create(op, request_data, self, login, post) ==
    /\ calls < MaxCalls
    /\ heap[self].class = "DocuSignClient"
    /\ \E after \in {IF IsRaise(request_data.result)
                     THEN [objects |-> request_data.objects, envelope |-> envelope,
                           sent |-> <<>>, result |-> request_data.result]
                     ELSE create_envelope(request_data.objects, envelope, self,
                                          login, post)} :
        /\ calls' = calls + 1
        /\ heap' = after.objects
        /\ envelope' = after.envelope
        /\ server' = [server EXCEPT !.envelopes = Serviced(@, after.sent)]
        /\ log' = log \o after.sent
        /\ call' = [op |-> op, self |-> self, envelope |-> envelope, heap |-> heap,
                    data |-> request_data.result, sent |-> after.sent,
                    result |-> after.result]
        /\ UNCHANGED xml_soup

CreateEnvelopeFromDocuments ==
    \E self \in DOMAIN heap, login \in StatusCodes, post \in StatusCodes :
        Create("create_envelope_from_documents",
               create_envelope_from_documents_request(heap, envelope),
               self, LoginAnswer(login),
               PostAnswer(post, server.envelopes))

CreateEnvelopeFromDocument ==
    \E self \in DOMAIN heap, login \in StatusCodes, post \in StatusCodes :
        Create("create_envelope_from_document",
               create_envelope_from_documents_request(heap, envelope),
               self, LoginAnswer(login),
               PostAnswer(post, server.envelopes))

CreateEnvelopeFromTemplate ==
    \E self \in DOMAIN heap, login \in StatusCodes, post \in StatusCodes :
        Create("create_envelope_from_template",
               create_envelope_from_template_request(heap, envelope),
               self, LoginAnswer(login),
               PostAnswer(post, server.envelopes))

\* the contents of the files of the documents
Contents == {<<77, 97, 110>>, <<77, 97>>}

\* two clients, the first of a known account; a signer or a role; the files
\* of the documents, each open at its start; an envelope of documents or of a
\* template that has no envelopeId, an empty one or one, and no client or the
\* first client
InitClient ==
    /\ xml_soup = Document(PyStr(<<"-", "7">>), <<>>, <<>>)
    /\ call = NoCall
    /\ calls = 0
    /\ server = [envelopes |-> <<>>]
    /\ log = <<>>
    /\ \E contents \in SeqsUpTo(Contents, MaxDocuments),
          template \in BOOLEAN,
          envelopeId \in {PyNone, PyStr(<<>>), PyStr(<<"o", "l", "d">>)},
          client \in {PyNone, Ref(1)} :
        /\ heap = <<NewClient(PyStr(<<"5">>)), NewClient(PyStr(<<>>)),
                    IF template THEN LocalRole(1, PyStr(<<"a">>))
                    ELSE LocalSigner(1, PyStr(<<"a">>))>>
                  \o [i \in 1..Len(contents) |-> Open(contents[i])]
        /\ envelope =
            [NewEnvelope EXCEPT
                !.documents = [i \in 1..Len(contents) |->
                                  NewDocument(PyInt(i), PyStr(<<"d", Digits[i + 1]>>),
                                              3 + i)],
                !.recipients = IF template THEN <<>> ELSE <<3>>,
                !.templateId = IF template THEN PyStr(<<"t", "i", "d">>) ELSE PyNone,
                !.templateRoles = IF template THEN <<3>> ELSE PyNone,
                !.envelopeId = envelopeId,
                !.client = client]

NextClient ==
    \/ CreateEnvelopeFromDocuments
    \/ CreateEnvelopeFromDocument
    \/ CreateEnvelopeFromTemplate

SpecClient == InitClient /\ [][NextClient]_vars

----------------------------------------------------------------------------
(* The HTTP requests of a client *)

\* the most requests a program makes on its own
MaxRequests == 1

HTML == <<"text/html">>
\* What requests may give for a request: no answer; a JSON body with the
\* status 200, 201 or 400; a JSON body with a charset in the Content-Type; a
\* page that is no JSON, announced as text/html, as JSON, or not announced
Answers ==
    {RequestException,
     Answer(200, JSON, LoginText),
     Answer(201, JSON, EmptyObjectText),
     Answer(400, JSON, ErrorText),
     Answer(200, Append(JSON, "; charset=utf-8"), RecipientsText),
     Answer(201, HTML, PageText),
     Answer(200, JSON, PageText),
     Answer(200, <<>>, PageText)}

\* a client with an OAuth2 token, or with a username and a password
Clients ==
    {NewClient(PyStr(<<"5">>)),
     [NewClient(PyStr(<<"5">>)) EXCEPT !.oauth2_token = PyStr(<<"t", "o", "k">>)]}

\* client.get(url), client.post(url), client.put(url), client.delete(url),
\* with expected_status_code or without: one call of requests
Method(op, method) ==
    \E self \in DOMAIN heap, expected_status_code \in {200, 201},
       answer \in Answers :
        /\ Len(log) < MaxRequests
        /\ call' = [op |-> op, self |-> self,
                    url |-> <<"/", "x">>,
                    expected_status_code |-> expected_status_code,
                    sent |-> <<Sent(self, heap[self], <<"/", "x">>, method, answer)>>,
                    result |-> request(heap[self], <<"/", "x">>, method,
                                       expected_status_code, answer)]
        /\ log' = Append(log, Sent(self, heap[self], <<"/", "x">>, method, answer))
        /\ UNCHANGED <<xml_soup, envelope, heap, calls, server>>

ClientGet == Method("get", "GET")
ClientPost == Method("post", "POST")
ClientPut == Method("put", "PUT")
ClientDelete == Method("delete", "DELETE")

\* the send-on-behalf-of emails passed to base_headers
SoboEmails == {PyNone, PyStr(<<>>), PyStr(<<"s", "@", "x">>)}

\* client.base_headers(sobo_email)
BaseHeaders ==
    \E self \in DOMAIN heap, sobo_email \in SoboEmails :
        /\ call' = [op |-> "base_headers", self |-> self, sobo_email |-> sobo_email,
                    result |-> Return(base_headers(heap[self], sobo_email))]
        /\ UNCHANGED <<xml_soup, envelope, heap, calls, server, log>>

InitTransport ==
    /\ xml_soup = Document(PyStr(<<"-", "7">>), <<>>, <<>>)
    /\ call = NoCall
    /\ calls = 0
    /\ envelope = EmptyEnvelope
    /\ server = [envelopes |-> <<>>]
    /\ log = <<>>
    /\ heap \in {<<client>> : client \in Clients}

NextTransport ==
    \/ ClientGet
    \/ ClientPost
    \/ ClientPut
    \/ ClientDelete
    \/ BaseHeaders

SpecTransport == InitTransport /\ [][NextTransport]_vars

----------------------------------------------------------------------------
(* The operations of a client on its account *)

\* data[key]
Subscript(data, key) ==
    IF IsStr(data) THEN Raise("TypeError")
    ELSE IF key \notin DOMAIN data THEN Raise("KeyError")
    ELSE Return(data[key])

\* The operations on an account other than the creation of an envelope,
\* called for the envelope e1, the template t1 and the recipient r1: the url
\* after the account id, the method, the expected status code, and the key
\* of the answer that is returned, if any.  The data of the requests is left
\* out.
AccountOperations ==
    {[op |-> "void_envelope", path |-> <<"/envelopes/", "e", "1">>,
      method |-> "PUT", expected_status_code |-> 200, key |-> ""],
     [op |-> "get_envelope", path |-> <<"/envelopes/", "e", "1">>,
      method |-> "GET", expected_status_code |-> 200, key |-> ""],
     [op |-> "post_recipient_view",
      path |-> <<"/envelopes/", "e", "1", "/views/recipient">>,
      method |-> "POST", expected_status_code |-> 201, key |-> ""],
     [op |-> "get_envelope_document_list",
      path |-> <<"/envelopes/", "e", "1", "/documents">>,
      method |-> "GET", expected_status_code |-> 200, key |-> "envelopeDocuments"],
     [op |-> "get_template", path |-> <<"/templates/", "t", "1">>,
      method |-> "GET", expected_status_code |-> 200, key |-> ""],
     [op |-> "get_connect_failures", path |-> <<"/connect/failures">>,
      method |-> "GET", expected_status_code |-> 200, key |-> "failures"],
     [op |-> "get_envelope_recipients",
      path |-> <<"/envelopes/", "e", "1", "/recipients">>,
      method |-> "GET", expected_status_code |-> 200, key |-> ""],
     [op |-> "add_envelope_recipients",
      path |-> <<"/envelopes/", "e", "1", "/recipients">>,
      method |-> "POST", expected_status_code |-> 201, key |-> ""],
     [op |-> "update_envelope_recipients",
      path |-> <<"/envelopes/", "e", "1", "/recipients">>,
      method |-> "PUT", expected_status_code |-> 200, key |-> ""],
     [op |-> "delete_envelope_recipient",
      path |-> <<"/envelopes/", "e", "1", "/recipients/", "r", "1">>,
      method |-> "DELETE", expected_status_code |-> 200, key |-> ""],
     [op |-> "delete_envelope_recipients",
      path |-> <<"/envelopes/", "e", "1", "/recipients">>,
      method |-> "DELETE", expected_status_code |-> 200, key |-> ""]}

\* what requests may give for GET /login_information, and for the request
\* of an operation
LoginAnswers == {LoginAnswer(200), RequestException}
OperationAnswers == {Answer(200, JSON, EmptyObjectText), RequestException}

\* one of these operations, called on the client
AccountOperation ==
    \E row \in AccountOperations, self \in DOMAIN heap,
       login \in LoginAnswers, answer \in OperationAnswers :
        /\ calls < MaxCalls
        /\ heap[self].class = "DocuSignClient"
        /\ \E after \in {account_request(heap, self, row.path, row.method,
                                         row.expected_status_code, login, answer)} :
            /\ calls' = calls + 1
            /\ heap' = after.objects
            /\ log' = log \o after.sent
            /\ call' = [op |-> row.op, self |-> self, envelope |-> envelope,
                        heap |-> heap, sent |-> after.sent,
                        result |-> IF row.key = "" \/ IsRaise(after.result)
                                   THEN after.result
                                   ELSE Subscript(after.result.ret, row.key)]
            /\ UNCHANGED <<xml_soup, envelope, server>>

\* create_envelope_from_template, whatever requests gives
CreateEnvelope ==
    \E self \in DOMAIN heap, login \in LoginAnswers,
       post \in {PostAnswer(201, server.envelopes), PostAnswer(400, server.envelopes),
                 Answer(201, HTML, PageText), RequestException} :
        Create("create_envelope_from_template",
               create_envelope_from_template_request(heap, envelope),
               self, login, post)

\* Envelope.get_recipients(client): the client given or else
\* envelope.client fetches the recipients, which are then taken over
envelope_get_recipients(objects, env, client, login, answer) ==
    LET used == IF client = PyNone THEN env.client ELSE client
    IN  IF used = PyNone
        THEN [objects |-> objects, envelope |-> env, sent |-> <<>>,
              result |-> Raise("AttributeError")]
        ELSE Only({
                 IF IsRaise(fetched.result)
                 THEN [objects |-> fetched.objects, envelope |-> env,
                       sent |-> fetched.sent, result |-> fetched.result]
                 ELSE IF IsStr(fetched.result.ret)
                 THEN [objects |-> fetched.objects, envelope |-> env,
                       sent |-> fetched.sent, result |-> Raise("AttributeError")]
                 ELSE Only({[objects |-> after.objects, envelope |-> after.envelope,
                             sent |-> fetched.sent, result |-> after.result]
                            : after \in {get_recipients(env, fetched.objects,
                                                         fetched.result.ret)}})
                 : fetched \in {account_request(
                                    objects, used.ref,
                                    <<"/envelopes/">> \o format(env.envelopeId)
                                        \o <<"/recipients">>,
                                    "GET", 200, login, answer)}})

\* envelope.get_recipients() and envelope.get_recipients(client)
FetchRecipients ==
    \E client \in {PyNone, Ref(1)}, login \in LoginAnswers,
       answer \in {Answer(200, JSON, RecipientsText), Answer(400, JSON, ErrorText),
                   Answer(200, HTML, PageText), RequestException} :
        /\ calls < MaxCalls
        /\ \E after \in {envelope_get_recipients(heap, envelope, client, login,
                                                 answer)} :
            /\ calls' = calls + 1
            /\ heap' = after.objects
            /\ envelope' = after.envelope
            /\ log' = log \o after.sent
            /\ call' = [op |-> "get_recipients", client |-> client,
                        envelope |-> envelope, heap |-> heap,
                        sent |-> after.sent, result |-> after.result]
            /\ UNCHANGED <<xml_soup, server>>

\* a client of a known account or of one to ask for, and a recipient with
\* the clientUserId a; an envelope of documents or of a template, with the
\* client or without
InitAccount ==
    /\ xml_soup = Document(PyStr(<<"-", "7">>), <<>>, <<>>)
    /\ call = NoCall
    /\ calls = 0
    /\ server = [envelopes |-> <<>>]
    /\ log = <<>>
    /\ \E account_id \in {PyStr(<<"5">>), PyStr(<<>>)},
          template \in BOOLEAN,
          client \in {PyNone, Ref(1)} :
        /\ heap = <<NewClient(account_id),
                    IF template THEN LocalRole(2, PyStr(<<"a">>))
                    ELSE LocalSigner(2, PyStr(<<"a">>))>>
        /\ envelope =
            [NewEnvelope EXCEPT
                !.recipients = IF template THEN <<>> ELSE <<2>>,
                !.templateId = IF template THEN PyStr(<<"t", "i", "d">>) ELSE PyNone,
                !.templateRoles = IF template THEN <<2>> ELSE PyNone,
                !.client = client]

NextAccount ==
    \/ AccountOperation
    \/ CreateEnvelope
    \/ FetchRecipients

SpecAccount == InitAccount /\ [][NextAccount]_vars

----------------------------------------------------------------------------
(* Properties of Envelope.get_recipients (SpecEnvelope) *)

\* a get_recipients() call has just returned
Synced == call.op = "get_recipients" /\ call.result = Return(PyNone)
\* the envelope was built from documents, not from a template, before the call
DocumentMode == ~Truthy(call.envelope.templateId)
\* the signer records of the answer
Signers == Get(call.data, "signers", <<>>)
\* the local recipients before the call: the list get_recipients() searches
LocalRecipients ==
    IF DocumentMode THEN call.envelope.recipients ELSE call.envelope.templateRoles
Range(seq) == {seq[i] : i \in 1..Len(seq)}
Bijections(n) == {p \in [1..n -> 1..n] : \A i, j \in 1..n : p[i] = p[j] => i = j}

\* the fields of a signer record a recipient carries
ServerFields == {"routingOrder", "name", "userId", "recipientId", "clientUserId", "email"}
Carries(recipient, recipient_data) ==
    \A field \in ServerFields \cap DOMAIN recipient_data :
        IF field = "routingOrder"
        THEN /\ AllDigits(recipient_data[field].str)
             /\ recipient[field] = PyInt(DigitsValue(recipient_data[field].str))
        ELSE recipient[field] = recipient_data[field]

C2_SortedByRoutingOrderStable ==
    Synced =>
        \E p \in Bijections(Len(Signers)) :
            /\ Len(envelope.recipients) = Len(Signers)
            /\ \A i \in 1..Len(Signers) :
                  Carries(heap[envelope.recipients[i]], Signers[p[i]])
            /\ \A i, j \in 1..Len(Signers) :
                  i < j =>
                      LET left == heap[envelope.recipients[i]].routingOrder.int
                          right == heap[envelope.recipients[j]].routingOrder.int
                      IN  \/ left < right
                          \/ left = right /\ p[i] < p[j]

\* two records of equal routingOrder matched the two local recipients, which
\* were listed in the other order
C2_Witness ==
    /\ Synced
    /\ Len(Signers) = 2
    /\ Len(LocalRecipients) = 2
    /\ ServerFields \subseteq DOMAIN Signers[1] \cap DOMAIN Signers[2]
    /\ Signers[1].routingOrder = Signers[2].routingOrder
    /\ call.heap[LocalRecipients[1]].clientUserId = Signers[2].clientUserId
    /\ call.heap[LocalRecipients[2]].clientUserId = Signers[1].clientUserId
    /\ Signers[1].clientUserId # Signers[2].clientUserId
    /\ envelope.recipients = <<LocalRecipients[2], LocalRecipients[1]>>

\* the attributes of a recipient get_recipients() does not write
LocalFields == {"class", "tabs", "emailSubject", "emailBody", "supportedLanguage",
                "accessCode"}
\* the object the loop of get_recipients() appended for the k-th record
SyncedFor(k) == call.synced_recipients[k]
\* the local recipients no record before the k-th has taken
SearchPool(k) == Range(LocalRecipients) \ {SyncedFor(j) : j \in 1..(k - 1)}
\* those of them whose clientUserId is the one of the k-th record
Matching(k) ==
    LET client_user_id == Get(Signers[k], "clientUserId", PyNone)
    IN  IF ~Truthy(client_user_id) THEN {}
        ELSE {local \in SearchPool(k) : call.heap[local].clientUserId = client_user_id}

\* C3: in get_recipients(), a signer record with a non-empty clientUserId
\* equal to the clientUserId of a local recipient (one that no earlier record
\* of the answer has taken) yields that local object, its tabs, emailSubject,
\* emailBody, supportedLanguage and accessCode unchanged and only the server
\* fields overwritten; a record with an empty or missing clientUserId, or
\* with one that no local recipient has, yields a recipient made anew and
\* takes no local recipient: the local recipients left over stay in the list
\* that was searched (observable on the template roles).
C3_ReuseLocalElseFresh ==
    Synced =>
        /\ \A k \in 1..Len(Signers) :
              /\ Carries(heap[SyncedFor(k)], Signers[k])
              /\ IF Matching(k) # {}
                 THEN /\ SyncedFor(k) \in Matching(k)
                      /\ \A field \in LocalFields :
                            heap[SyncedFor(k)][field] = call.heap[SyncedFor(k)][field]
                 ELSE /\ SyncedFor(k) \notin DOMAIN call.heap
                      /\ \A field \in LocalFields :
                            heap[SyncedFor(k)][field] = NewSigner[field]
        /\ ~DocumentMode =>
              \A local \in Range(LocalRecipients) :
                  local \in Range(envelope.templateRoles)
                      <=> local \notin UNION {Matching(k) \cap {SyncedFor(k)} :
                                                  k \in 1..Len(Signers)}
        /\ \A oid \in DOMAIN call.heap \ Range(call.synced_recipients) :
              heap[oid] = call.heap[oid]

\* of two records, one took the local signer that has its clientUserId and
\* tabs of its own, the other has an empty or no clientUserId and got a new
\* recipient although a local recipient has no clientUserId either
C3_Witness ==
    /\ Synced
    /\ Len(Signers) = 2
    /\ \E k \in 1..2 :
          /\ Matching(k) # {}
          /\ call.heap[SyncedFor(k)].class = "Signer"
          /\ call.heap[SyncedFor(k)].tabs = <<SignHereTab>>
          /\ heap[SyncedFor(k)].email # call.heap[SyncedFor(k)].email
    /\ \E k \in 1..2 :
          /\ ~Truthy(Get(Signers[k], "clientUserId", PyNone))
          /\ SyncedFor(k) \notin DOMAIN call.heap
    /\ \E local \in Range(LocalRecipients) : call.heap[local].clientUserId = PyNone

----------------------------------------------------------------------------
(* Properties of DocuSignCallbackParser (SpecParser) *)

\* the offset the document declares, when it declares an integer
DeclaredOffset == timezone_offset(xml_soup)
OffsetDeclared == ~IsRaise(DeclaredOffset)

\* The instant a timestamp text "<date and minute>SS[.f...]" denotes at the
\* declared offset: the fields as written (the fraction to the microsecond),
\* offset-aware.
Converted(raw) ==
    LET fraction == IF Len(raw) > 4 THEN SubSeq(raw, 5, Len(raw)) ELSE <<>>
    IN  [prefix |-> PrefixOf(raw[1]),
         second |-> DigitsValue(SubSeq(raw, 2, 3)),
         microsecond |->
             DigitsValue(SubSeq(fraction \o <<"0", "0", "0", "0", "0", "0">>, 1, 6)),
         tzoffset |-> PyInt(DeclaredOffset.ret)]

NonDecreasing(list) ==
    \A i, j \in 1..Len(list) :
        i < j => cmp_datetime(list[i].datetime, list[j].datetime) <= 0
Count(list, element) == Cardinality({i \in 1..Len(list) : list[i] = element})

\* the elements directly under the EnvelopeStatus element, and the
\* RecipientStatus elements, in document order
EnvelopeStatusChildren == EnvelopeStatus(xml_soup).children
RecipientStatusNodes == SelectSeq(RecipientStatusesChildren(xml_soup), IsTag)

\* C4: events holds exactly the records of envelope_events, each tagged
\* object = 'envelope' and recipient = None, and the records of
\* recipient_events, each tagged object = 'recipient', and is non-decreasing
\* in datetime over both kinds together.  (events raises when one of the two
\* raises, and only then.)
C4_EventsIsSortedUnion ==
    call.op = "events" =>
        LET of_envelope == envelope_events(xml_soup)
            of_recipients == recipient_events(xml_soup)
        IN  IF IsRaise(of_envelope) \/ IsRaise(of_recipients)
            THEN IsRaise(call.result)
            ELSE /\ ~IsRaise(call.result)
                 /\ Len(call.result.ret) = Len(of_envelope.ret) + Len(of_recipients.ret)
                 /\ \A i \in 1..Len(call.result.ret) :
                       LET event == call.result.ret[i]
                       IN  Count(call.result.ret, event)
                           = Cardinality({j \in 1..Len(of_envelope.ret) :
                               /\ event.object = "envelope"
                               /\ event.recipient = PyNone
                               /\ [datetime |-> event.datetime, status |-> event.status]
                                  = of_envelope.ret[j]})
                           + Cardinality({j \in 1..Len(of_recipients.ret) :
                               /\ event.object = "recipient"
                               /\ [f \in DOMAIN event \ {"object"} |-> event[f]]
                                  = of_recipients.ret[j]})
                 /\ NonDecreasing(call.result.ret)

\* events returned a list in which an envelope event comes after a recipient
\* event and before another one
C4_Witness ==
    /\ call.op = "events"
    /\ ~IsRaise(call.result)
    /\ \E i, j, k \in 1..Len(call.result.ret) :
          /\ i < j /\ j < k
          /\ call.result.ret[i].object = "recipient"
          /\ call.result.ret[j].object = "envelope"
          /\ call.result.ret[k].object = "recipient"
          /\ cmp_datetime(call.result.ret[i].datetime, call.result.ret[k].datetime) < 0

\* the place of a status in the enumeration of envelope statuses
EnvelopeStatusIndex(status) ==
    CHOOSE i \in 1..Len(ENVELOPE_STATUS_LIST) : ENVELOPE_STATUS_LIST[i] = status

\* C5: envelope_events holds one {datetime, status} record for exactly the
\* known envelope statuses that have a timestamp element directly under the
\* EnvelopeStatus element, in ascending order of datetime, records of equal
\* datetime in the order of the enumeration of statuses, whatever the order
\* of the elements in the document.
C5_EnvelopeEvents ==
    (call.op = "envelope_events" /\ OffsetDeclared) =>
        /\ ~IsRaise(call.result)
        /\ \A status \in Range(ENVELOPE_STATUS_LIST) :
              LET node == FindChild(EnvelopeStatusChildren, status)
                  at == {i \in 1..Len(call.result.ret) :
                            call.result.ret[i].status = status}
              IN  IF node = PyNone THEN at = {}
                  ELSE /\ Cardinality(at) = 1
                       /\ \A i \in at :
                             call.result.ret[i] =
                                 [datetime |-> Converted(node.string.str),
                                  status |-> status]
        /\ \A i \in 1..Len(call.result.ret) :
              call.result.ret[i].status \in Range(ENVELOPE_STATUS_LIST)
        /\ \A i, j \in 1..Len(call.result.ret) :
              i < j =>
                  LET order == cmp_datetime(call.result.ret[i].datetime,
                                            call.result.ret[j].datetime)
                  IN  \/ order < 0
                      \/ /\ order = 0
                         /\ EnvelopeStatusIndex(call.result.ret[i].status)
                            < EnvelopeStatusIndex(call.result.ret[j].status)

\* C6: for every RecipientStatus element that has a ClientUserId and a
\* RecipientId, and every known recipient status, recipient_events holds an
\* event of that recipient and status when the element has a child with the
\* exact name of the status; the list is non-decreasing in datetime.
C6_RecipientEvents ==
    (call.op = "recipient_events" /\ OffsetDeclared) =>
        /\ ~IsRaise(call.result)
        /\ \A n \in 1..Len(RecipientStatusNodes) :
              LET node == RecipientStatusNodes[n]
                  client_user_id == ChildString(node, N_ClientUserId)
                  recipient_id == ChildString(node, N_RecipientId)
              IN  (IsStr(client_user_id) /\ IsStr(recipient_id)) =>
                      \A status \in Range(RECIPIENT_STATUS_LIST) :
                          FindChild(node.children, status) # PyNone =>
                              \E i \in 1..Len(call.result.ret) :
                                  /\ call.result.ret[i].status = status
                                  /\ call.result.ret[i].clientUserId = client_user_id
                                  /\ call.result.ret[i].recipientId = recipient_id
        /\ NonDecreasing(call.result.ret)

\* C7: for every integer offset the document declares, negative, zero or
\* positive, and every timestamp text, with a fraction of a second or
\* without, datetime(raw) returns an offset-aware instant whose date and time
\* are those written in raw and whose UTC offset is timezone_offset hours.
C7_DatetimeAtAnyOffset ==
    (call.op = "datetime" /\ OffsetDeclared) =>
        call.result = Return(Converted(call.args[1].str))

\* C8: envelope_status_datetime(status) returns the converted timestamp of
\* the element named after the status directly under the EnvelopeStatus
\* element, and None when there is no such element there, even if a
\* RecipientStatus element below holds one of that name.
C8_EnvelopeStatusDatetime ==
    (call.op = "envelope_status_datetime" /\ OffsetDeclared) =>
        LET node == FindChild(EnvelopeStatusChildren, title(call.args[1]))
        IN  IF node = PyNone THEN call.result = Return(PyNone)
            ELSE call.result = Return(Converted(node.string.str))

\* the first RecipientStatus element whose ClientUserId is recipient_id
MatchedNodes(recipient_id) ==
    {n \in 1..Len(RecipientStatusNodes) :
        ChildString(RecipientStatusNodes[n], N_ClientUserId) = recipient_id}
MatchedNode(recipient_id) ==
    RecipientStatusNodes[CHOOSE n \in MatchedNodes(recipient_id) :
                             \A m \in MatchedNodes(recipient_id) : n <= m]

\* C9: recipient_status_datetime(id, 'completed') returns the converted
\* timestamp of the Signed child of the matched RecipientStatus element, and
\* recipient_status_datetime(id, 'signed') returns None when the matched
\* element has no Signed child.
C9_CompletedReadsSigned ==
    (/\ call.op = "recipient_status_datetime"
     /\ OffsetDeclared
     /\ MatchedNodes(call.args[1]) # {}) =>
        LET signed == FindChild(MatchedNode(call.args[1]).children,
                                RECIPIENT_STATUS_SIGNED)
        IN  /\ (call.args[2] = <<"c", "o", "m", "p", "l", "e", "t", "e", "d">>
                /\ signed # PyNone)
                   => call.result = Return(Converted(signed.string.str))
            /\ (call.args[2] = <<"s", "i", "g", "n", "e", "d">> /\ signed = PyNone)
                   => call.result = Return(PyNone)

\* C10: recipients is a mapping with one entry per RecipientStatus element,
\* under the ClientUserId of the element, in non-decreasing order of
\* RoutingOrder whatever the order of the elements; each value holds
\* RoutingOrder as an integer and the timestamp of every known status the
\* element has as a converted instant.
C10_RecipientsMapping ==
    (call.op = "recipients" /\ OffsetDeclared) =>
        /\ ~IsRaise(call.result)
        /\ Len(call.result.ret) = Len(RecipientStatusNodes)
        /\ \E p \in Bijections(Len(RecipientStatusNodes)) :
              \A n \in 1..Len(RecipientStatusNodes) :
                  LET node == RecipientStatusNodes[n]
                      item == call.result.ret[p[n]]
                  IN  /\ item.key = ChildString(node, N_ClientUserId)
                      /\ item.value[N_RoutingOrder] =
                             PyInt(DigitsValue(ChildString(node, N_RoutingOrder).str))
                      /\ \A status \in Range(RECIPIENT_STATUS_LIST) :
                            LET child == FindChild(node.children, status)
                            IN  child # PyNone =>
                                    /\ status \in DOMAIN item.value
                                    /\ item.value[status] = Converted(child.string.str)
        /\ \A i, j \in 1..Len(call.result.ret) :
              i < j => call.result.ret[i].value[N_RoutingOrder].int
                           <= call.result.ret[j].value[N_RoutingOrder].int

\* the Status element of the envelope itself: directly under EnvelopeStatus
OwnStatus == FindChild(EnvelopeStatusChildren, N_Status)

\* C11: envelope_status returns the status of the envelope itself, the text
\* of the Status element directly under EnvelopeStatus and never that of a
\* Status element inside a RecipientStatus element, whatever the order of
\* the elements, and raises ValueError when that status is not one of the
\* known envelope statuses.
C11_EnvelopeStatusIsOwn ==
    (call.op = "envelope_status" /\ OwnStatus # PyNone /\ IsStr(OwnStatus.string)) =>
        IF Occurs(ENVELOPE_STATUS_LIST, OwnStatus.string.str)
        THEN call.result = Return(OwnStatus.string)
        ELSE IsRaise(call.result) /\ call.result.raise = "ValueError"

\* a message holds a word, whatever the case of its letters
Mentions(message, word) ==
    \E i \in 1..Len(message) :
        /\ i + Len(word) - 1 <= Len(message)
        /\ [k \in 1..Len(word) |-> lower(message[i + k - 1])] = word
\* the outcome is an error whose message holds one of the words
RaisesNaming(outcome, words) ==
    /\ IsRaise(outcome)
    /\ "message" \in DOMAIN outcome
    /\ \E word \in words : Mentions(outcome.message, word)

\* C12: when the document has no TimeZoneOffset element, timezone_offset and
\* every conversion of a timestamp raise an error that names the time zone
\* offset; when it has no Status element of the envelope, envelope_status
\* raises an error that names the status; no value is returned instead.
C12_MissingFieldIsNamed ==
    /\ (/\ call.op \in {"timezone_offset", "datetime"}
        /\ FindRecursive(xml_soup.children, N_TimeZoneOffset) = PyNone)
           => RaisesNaming(call.result, {<<"t", "i", "m", "e", "z", "o", "n", "e">>, <<"o", "f", "f", "s", "e", "t">>})
    /\ (call.op = "envelope_status" /\ OwnStatus = PyNone)
           => RaisesNaming(call.result, {<<"s", "t", "a", "t", "u", "s">>})

----------------------------------------------------------------------------
(* Properties of to_dict() (SpecModels) *)

\* to_dict() of an object of the class has just returned
Serialized(class) ==
    /\ call.op = "to_dict"
    /\ call.self.class = class
    /\ ~IsRaise(call.result)

\* C13: the mapping Envelope.to_dict() returns always has status, emailBlurb
\* and emailSubject; it has templateId and templateRoles and neither documents
\* nor recipients when the envelope has a template id, documents and
\* recipients and neither templateId nor templateRoles when it has none (None
\* or empty); it has eventNotification exactly when the envelope has one; it
\* has no other key.
C13_EnvelopeGroups ==
    Serialized("Envelope") =>
        LET data == call.result.ret
            template == {"templateId", "templateRoles"}
            document == {"documents", "recipients"}
        IN  /\ {"status", "emailBlurb", "emailSubject"} \subseteq DOMAIN data
            /\ data.status = call.self.status
            /\ data.emailBlurb = call.self.emailBlurb
            /\ data.emailSubject = call.self.emailSubject
            /\ IF Truthy(call.self.templateId)
               THEN /\ template \subseteq DOMAIN data
                    /\ document \cap DOMAIN data = {}
                    /\ data.templateId = call.self.templateId
               ELSE /\ document \subseteq DOMAIN data
                    /\ template \cap DOMAIN data = {}
            /\ "eventNotification" \in DOMAIN data
                   <=> call.self.eventNotification # PyNone
            /\ DOMAIN data \subseteq
                   {"status", "emailBlurb", "emailSubject", "eventNotification"}
                   \cup template \cup document

\* an envelope of a template that has a role, an event notification and
\* documents has been serialized
C13_Witness ==
    /\ Serialized("Envelope")
    /\ Truthy(call.self.templateId)
    /\ call.self.eventNotification # PyNone
    /\ call.self.documents # <<>>
    /\ Len(call.result.ret.templateRoles) > 0

\* the places of the tabs of a class in a list of tabs, and the n-th of them
PlacesOf(tabs, class) == {i \in 1..Len(tabs) : tabs[i].class = class}
NthPlaceOf(tabs, class, n) ==
    CHOOSE i \in PlacesOf(tabs, class) :
        Cardinality({j \in PlacesOf(tabs, class) : j < i}) = n - 1
WireNames == [SignHereTab |-> "signHereTabs", ApproveTab |-> "approveTabs"]

\* C14: in the mapping Signer.to_dict() returns, 'tabs' has one key for each
\* tab class the signer has a tab of, the wire name of the class
\* (signHereTabs, approveTabs); its value lists the to_dict() of the tabs of
\* that class, each once, in the order they have in the signer's list. A
\* signer without tabs has the empty mapping.
C14_TabsGroupedInOrder ==
    Serialized("Signer") =>
        LET tabs == call.self.tabs
            data == call.result.ret
        IN  /\ "tabs" \in DOMAIN data
            /\ DOMAIN data.tabs =
                   {WireNames[class] : class \in {c \in DOMAIN WireNames :
                                                     PlacesOf(tabs, c) # {}}}
            /\ \A class \in DOMAIN WireNames :
                   PlacesOf(tabs, class) # {} =>
                       LET listed == data.tabs[WireNames[class]]
                       IN  /\ Len(listed) = Cardinality(PlacesOf(tabs, class))
                           /\ \A n \in 1..Len(listed) :
                                  listed[n] = DocuSignObject_to_dict(
                                                  tabs[NthPlaceOf(tabs, class, n)])

\* a signer with a SignHereTab, then an ApproveTab, then another SignHereTab
\* has been serialized
C14_Witness ==
    /\ Serialized("Signer")
    /\ Len(call.self.tabs) = 3
    /\ call.self.tabs[1].class = "SignHereTab"
    /\ call.self.tabs[2].class = "ApproveTab"
    /\ call.self.tabs[3].class = "SignHereTab"
    /\ call.self.tabs[1] # call.self.tabs[3]
    /\ Len(call.result.ret.tabs.signHereTabs) = 2

\* C15: in the mappings Signer.to_dict() and Role.to_dict() return,
\* 'emailNotification' is a mapping with exactly the keys emailBody,
\* emailSubject and supportedLanguage, holding the three fields, when one of
\* the three fields at least is set (neither None nor empty); it is None when
\* none is.
C15_EmailNotification ==
    (Serialized("Signer") \/ Serialized("Role")) =>
        LET self == call.self
            data == call.result.ret
        IN  /\ "emailNotification" \in DOMAIN data
            /\ IF \E field \in {"emailBody", "emailSubject", "supportedLanguage"} :
                      Truthy(self[field])
               THEN /\ DOMAIN data.emailNotification =
                           {"emailBody", "emailSubject", "supportedLanguage"}
                    /\ \A field \in DOMAIN data.emailNotification :
                           data.emailNotification[field] = self[field]
               ELSE data.emailNotification = PyNone

\* a role with a language alone has been serialized
C15_Witness ==
    /\ Serialized("Role")
    /\ call.self.emailBody = PyNone
    /\ call.self.emailSubject = PyNone
    /\ Truthy(call.self.supportedLanguage)
    /\ call.result.ret.emailNotification.emailBody = PyNone

\* C19: the mapping SignHereTab.to_dict() or ApproveTab.to_dict() returns has
\* exactly the keys documentId, pageNumber, xPosition, yPosition and
\* recipientId; the first four hold the fields of the tab, and recipientId is
\* None for a tab constructed without recipientId.
C19_TabKeys ==
    (Serialized("SignHereTab") \/ Serialized("ApproveTab")) =>
        LET data == call.result.ret
        IN  /\ \A field \in {"documentId", "pageNumber", "xPosition", "yPosition"} :
                   field \in DOMAIN data /\ data[field] = call.self[field]
            /\ DOMAIN data =
                   {"documentId", "pageNumber", "xPosition", "yPosition", "recipientId"}
            /\ data.recipientId = PyNone

\* the attributes a class declares required: models.py declares none
required_attributes(class) == {}
\* the attributes of the class as a set
Declared(class) == {attributes(class)[i] : i \in 1..Len(attributes(class))}

\* C20: the mapping to_dict() returns for an object of any class has no key
\* but the declared attributes of the class; a declared attribute whose value
\* is None is left out unless the class declares it required, and is there
\* with the value None when the class does; a declared attribute with a value
\* is there with that value.
C20_OnlySetOrRequired ==
    (call.op = "to_dict" /\ ~IsRaise(call.result)) =>
        LET self == call.self
            data == call.result.ret
        IN  /\ DOMAIN data \subseteq Declared(self.class)
            /\ \A k \in Declared(self.class) :
                   IF ~IsNone(self[k]) THEN k \in DOMAIN data
                   ELSE IF k \in required_attributes(self.class)
                        THEN k \in DOMAIN data /\ IsNone(data[k])
                   ELSE k \notin DOMAIN data

----------------------------------------------------------------------------
(* The roles of a template after get_recipients() (SpecEnvelope) *)

\* the signer records of the answer that carry the clientUserId of the role
RecordsOf(role) ==
    {i \in 1..Len(Signers) :
        /\ "clientUserId" \in DOMAIN Signers[i]
        /\ Truthy(Signers[i].clientUserId)
        /\ Signers[i].clientUserId = call.heap[role].clientUserId}

\* C18: after get_recipients() on an envelope of a template, each of whose
\* roles has the clientUserId of a signer record of the answer,
\* envelope.templateRoles is the list it was before the call, the same roles
\* at the same indexes, and each role has the userId of a record that carries
\* its clientUserId.
C18_TemplateRolesKept ==
    (/\ Synced
     /\ ~DocumentMode
     /\ \A i \in 1..Len(call.envelope.templateRoles) :
            RecordsOf(call.envelope.templateRoles[i]) # {})
        => /\ envelope.templateRoles = call.envelope.templateRoles
           /\ \A i \in 1..Len(call.envelope.templateRoles) :
                  \E r \in RecordsOf(call.envelope.templateRoles[i]) :
                      heap[call.envelope.templateRoles[i]].userId =
                          Get(Signers[r], "userId", PyNone)

----------------------------------------------------------------------------
(* Properties of the creation of an envelope (SpecClient) *)

\* the call built the request of an envelope of documents
BuiltFromDocuments(c) ==
    /\ c.op \in {"create_envelope_from_documents", "create_envelope_from_document"}
    /\ ~IsRaise(c.data)

\* C16: each time the request of an envelope of documents is built, the
\* second time on the same open files included, the entry of each document
\* holds the base64 of the whole content of its file; the request built right
\* after another one for the same envelope is equal to it.
C16_WholeContentEachTime ==
    [][(calls' = calls + 1 /\ BuiltFromDocuments(call')) =>
          /\ \A i \in 1..Len(envelope.documents) :
                 call'.data.ret.documents[i].documentBase64 =
                     PyStr(b64encode(heap[envelope.documents[i].data].content))
          /\ BuiltFromDocuments(call) => call'.data = call.data]_vars

\* a create_envelope_from_documents or create_envelope_from_template call has
\* just returned
Created ==
    /\ call.op \in {"create_envelope_from_documents", "create_envelope_from_document",
                    "create_envelope_from_template"}
    /\ ~IsRaise(call.result)

\* C17: a create call that succeeds returns the envelope id the service has
\* just assigned; envelope.envelopeId becomes that id when it was None or
\* empty and keeps its value otherwise, envelope.client becomes the calling
\* client when it was None and keeps its value otherwise, and no other
\* attribute of the envelope and no recipient changes. So the envelope never
\* carries the id of a later creation.
C17_WriteBackOnce ==
    /\ Created =>
        /\ call.result.ret = server.envelopes[Len(server.envelopes)]
        /\ envelope.envelopeId = IF Truthy(call.envelope.envelopeId)
                                 THEN call.envelope.envelopeId
                                 ELSE call.result.ret
        /\ envelope.client = IF call.envelope.client # PyNone
                             THEN call.envelope.client
                             ELSE Ref(call.self)
        /\ \A attribute \in DOMAIN envelope \ {"envelopeId", "client"} :
               envelope[attribute] = call.envelope[attribute]
        /\ \A k \in DOMAIN heap :
               heap[k].class \in {"Signer", "Role"} => heap[k] = call.heap[k]
    /\ \A n \in 2..Len(server.envelopes) : envelope.envelopeId # server.envelopes[n]

\* an envelope without id nor client was created by the second client, then
\* created again by the first: it keeps the first id and the second client
C17_Witness ==
    /\ Created
    /\ Len(server.envelopes) = 2
    /\ call.self = 1
    /\ call.result.ret = EnvelopeId(2)
    /\ call.envelope.envelopeId = EnvelopeId(1)
    /\ envelope.envelopeId = EnvelopeId(1)
    /\ envelope.client = Ref(2)

----------------------------------------------------------------------------
(* Local recipients that share a clientUserId (SpecEnvelope) *)

\* the n-th number of a set of numbers
NthOf(S, n) == CHOOSE i \in S : Cardinality({j \in S : j < i}) = n - 1
\* the places of the local list, before the call, and the places of the
\* answer that hold the clientUserId
LocalsWith(client_user_id) ==
    {p \in 1..Len(LocalRecipients) :
        call.heap[LocalRecipients[p]].clientUserId = client_user_id}
RecordsWith(client_user_id) ==
    {k \in 1..Len(Signers) : Get(Signers[k], "clientUserId", PyNone) = client_user_id}

\* C24: in get_recipients(), when two local recipients (or more) have the
\* same non-empty clientUserId, the first signer record with that
\* clientUserId yields the earliest of them in the local list, the second
\* record the next one, and so on; a local recipient beyond the number of
\* such records is not taken, and a record beyond the number of such local
\* recipients yields a recipient made anew.
C24_SharedIdInListOrder ==
    Synced =>
        \A client_user_id \in {call.heap[local].clientUserId :
                                  local \in Range(LocalRecipients)} :
            (Truthy(client_user_id) /\ Cardinality(LocalsWith(client_user_id)) >= 2) =>
                LET locals == LocalsWith(client_user_id)
                    records == RecordsWith(client_user_id)
                IN  /\ \A n \in 1..Cardinality(records) :
                           IF n <= Cardinality(locals)
                           THEN SyncedFor(NthOf(records, n)) =
                                    LocalRecipients[NthOf(locals, n)]
                           ELSE SyncedFor(NthOf(records, n)) \notin DOMAIN call.heap
                    /\ \A n \in (Cardinality(records) + 1)..Cardinality(locals) :
                           LocalRecipients[NthOf(locals, n)]
                               \notin Range(call.synced_recipients)

\* two local recipients have the clientUserId of the two records of the
\* answer: the first record took the first, the second record the second
C24_Witness ==
    /\ Synced
    /\ Len(LocalRecipients) = 2
    /\ Truthy(call.heap[LocalRecipients[1]].clientUserId)
    /\ LocalsWith(call.heap[LocalRecipients[1]].clientUserId) = {1, 2}
    /\ RecordsWith(call.heap[LocalRecipients[1]].clientUserId) = {1, 2}
    /\ SyncedFor(1) = LocalRecipients[1]
    /\ SyncedFor(2) = LocalRecipients[2]

\* the signer records of the answer have non-empty clientUserIds, all
\* different
DistinctIds ==
    /\ \A k \in 1..Len(Signers) : Truthy(Get(Signers[k], "clientUserId", PyNone))
    /\ \A j, k \in 1..Len(Signers) :
           Signers[j].clientUserId = Signers[k].clientUserId => j = k

\* C27: for an envelope of documents and an answer whose signer records have
\* non-empty clientUserIds, all different, a second get_recipients() with the
\* same answer right after the first leaves envelope.recipients as the first
\* call left it: the same objects in the same order, each with the same
\* values, and no object made anew.
C27_SecondCallChangesNothing ==
    (calls >= 2 /\ Synced /\ DocumentMode /\ DistinctIds) =>
        /\ envelope.recipients = call.envelope.recipients
        /\ DOMAIN heap = DOMAIN call.heap
        /\ \A k \in Range(envelope.recipients) : heap[k] = call.heap[k]

\* the second call on two records, the one of a local signer and one that no
\* local signer had, which the first call put in the other order
C27_Witness ==
    /\ calls = 2
    /\ Synced
    /\ DocumentMode
    /\ DistinctIds
    /\ Len(Signers) = 2
    /\ Len(envelope.recipients) = 2
    /\ envelope.recipients[1] > envelope.recipients[2]
    /\ heap[envelope.recipients[2]].tabs = <<SignHereTab>>
    /\ heap[envelope.recipients[1]].tabs = <<>>

----------------------------------------------------------------------------
(* The timestamps of the recipients mapping (SpecParser) *)

\* the RecipientStatus elements that have a Signed timestamp
SignedNodes ==
    {n \in 1..Len(RecipientStatusNodes) :
        FindChild(RecipientStatusNodes[n].children, RECIPIENT_STATUS_SIGNED) # PyNone}
\* the text of the Signed element of the n-th RecipientStatus element
RawSigned(n) ==
    FindChild(RecipientStatusNodes[n].children, RECIPIENT_STATUS_SIGNED).string

\* C25: recipients raises no error on a document that has a RecipientStatus
\* element with a Signed timestamp, and the entry of each such element holds,
\* under 'Signed' and under 'Completed' alike, datetime() of the text of the
\* Signed element: each timestamp is converted once, from the text.
C25_ConvertedOnce ==
    (call.op = "recipients" /\ OffsetDeclared /\ SignedNodes # {}) =>
        /\ ~IsRaise(call.result)
        /\ \A n \in SignedNodes :
               \E i \in 1..Len(call.result.ret) :
                   LET value == call.result.ret[i].value
                   IN  /\ value[N_RecipientId] =
                              ChildString(RecipientStatusNodes[n], N_RecipientId)
                       /\ Return(value[RECIPIENT_STATUS_SIGNED]) =
                              datetime(xml_soup, RawSigned(n))
                       /\ Return(value[RECIPIENT_STATUS_COMPLETED]) =
                              datetime(xml_soup, RawSigned(n))

----------------------------------------------------------------------------
(* The element an event of a recipient comes from (SpecParser) *)

\* the RecipientStatus elements that supply the recipientId and the
\* clientUserId of the event
SuppliersOf(event) ==
    {n \in 1..Len(RecipientStatusNodes) :
        /\ ChildString(RecipientStatusNodes[n], N_RecipientId) = event.recipientId
        /\ ChildString(RecipientStatusNodes[n], N_ClientUserId) = event.clientUserId}
\* the child of the element that holds the timestamp of the status
TimestampOf(n, status) == FindChild(RecipientStatusNodes[n].children, status)

\* C26: the datetime of every event of recipient_events is the timestamp its
\* status has on the RecipientStatus element that supplied the recipientId of
\* the event, also when two elements have the same ClientUserId or an empty
\* one.
C26_EventOfItsOwnNode ==
    (call.op = "recipient_events" /\ ~IsRaise(call.result)) =>
        \A i \in 1..Len(call.result.ret) :
            LET event == call.result.ret[i]
            IN  \E n \in SuppliersOf(event) :
                    /\ TimestampOf(n, event.status) # PyNone
                    /\ Return(event.datetime) =
                           datetime(xml_soup, TimestampOf(n, event.status).string)

----------------------------------------------------------------------------
(* The entries an EventNotification registers for by default (SpecModels) *)

\* the status codes of a list of envelope events, of recipient events
EnvelopeCodes(entries) ==
    [i \in 1..Len(entries) |-> entries[i].envelopeEventStatusCode.str]
RecipientCodes(entries) ==
    [i \in 1..Len(entries) |-> entries[i].recipientEventStatusCode.str]
\* each entry has the status code and includeDocuments = False, nothing else
PlainEntries(entries, code) ==
    \A i \in 1..Len(entries) :
        /\ DOMAIN entries[i] = {code, "includeDocuments"}
        /\ entries[i].includeDocuments = PyBool(FALSE)
\* the recipient statuses but Signed, in the order of the enumeration
RecipientDefaultsHold(data) ==
    /\ RecipientCodes(data.recipientEvents) =
           SelectSeq(RECIPIENT_STATUS_LIST,
                     LAMBDA status : status # RECIPIENT_STATUS_SIGNED)
    /\ PlainEntries(data.recipientEvents, "recipientEventStatusCode")
    /\ PlainEntries(data.envelopeEvents, "envelopeEventStatusCode")

----------------------------------------------------------------------------
(* The authentication headers (SpecTransport) *)

\* the JSON text holds the field with the value; it holds no such field
HasField(text, key, value) ==
    \E i \in 1..Len(text) :
        /\ i + 5 + Len(value) <= Len(text)
        /\ SubSeq(text, i, i + 5 + Len(value)) =
               <<"\"", key, "\"", ": ", "\"">> \o value \o <<"\"">>
LacksField(text, key) == \A i \in 1..Len(text) : text[i] # key

\* C23: the headers of base_headers have one authentication scheme: with an
\* OAuth2 token, Authorization: Bearer <token> and no
\* X-DocuSign-Authentication; without, X-DocuSign-Authentication and no
\* Authorization.  An email passed as sobo_email is the header
\* X-DocuSign-Act-As-User with a token, and the field SendOnBehalfOf of the
\* JSON text of X-DocuSign-Authentication without; when none is passed there
\* is neither.
C23_OneScheme ==
    call.op = "base_headers" =>
        LET headers == call.result.ret
            self == heap[call.self]
            sobo_email == call.sobo_email
        IN  IF Truthy(self.oauth2_token)
            THEN /\ "Authorization" \in DOMAIN headers
                 /\ headers["Authorization"] =
                        PyStr(<<"Bearer ">> \o self.oauth2_token.str)
                 /\ "X-DocuSign-Authentication" \notin DOMAIN headers
                 /\ Truthy(sobo_email) =>
                        /\ "X-DocuSign-Act-As-User" \in DOMAIN headers
                        /\ headers["X-DocuSign-Act-As-User"] = sobo_email
                 /\ sobo_email = PyNone =>
                        "X-DocuSign-Act-As-User" \notin DOMAIN headers
            ELSE /\ "X-DocuSign-Authentication" \in DOMAIN headers
                 /\ "Authorization" \notin DOMAIN headers
                 /\ HasField(headers["X-DocuSign-Authentication"].str,
                             "Username", self.username.str)
                 /\ Truthy(sobo_email) =>
                        HasField(headers["X-DocuSign-Authentication"].str,
                                 "SendOnBehalfOf", sobo_email.str)
                 /\ sobo_email = PyNone =>
                        /\ LacksField(headers["X-DocuSign-Authentication"].str,
                                      "SendOnBehalfOf")
                        /\ "X-DocuSign-Act-As-User" \notin DOMAIN headers

\* the headers of a client with an OAuth2 token for an email: the token and
\* the email are two headers
C23_Witness ==
    /\ call.op = "base_headers"
    /\ Truthy(heap[call.self].oauth2_token)
    /\ Truthy(call.sobo_email)
    /\ call.result.ret["X-DocuSign-Act-As-User"] = call.sobo_email
    /\ DOMAIN call.result.ret =
           {"Accept", "Content-Type", "Authorization", "X-DocuSign-Act-As-User"}

----------------------------------------------------------------------------
(* The outcome of one request (SpecTransport) *)

\* the text holds the words, one after the other
Holds(text, words) ==
    \E i \in 1..Len(text) :
        /\ i + Len(words) - 1 <= Len(text)
        /\ SubSeq(text, i, i + Len(words) - 1) = words
\* the name of the HTTP method of get, post, put and delete
MethodOf == [get |-> "GET", post |-> "POST", put |-> "PUT", delete |-> "DELETE"]

\* C22: a call of get, post, put or delete makes one HTTP request, never a
\* second one.  When the status code of the answer is the expected one, the
\* call returns the body of the answer; otherwise it raises
\* DocuSignException: when there is no answer (a network failure), and when
\* the status code is another one, with the URL, the method, the expected
\* and the actual status code and the body of the answer in the message.
C22_OneAttemptBodyOrException ==
    call.op \in DOMAIN MethodOf =>
        LET answer == call.sent[1].answer
            do_url == heap[call.self].root_url.str \o call.url
        IN  /\ Len(call.sent) = 1
            /\ log # <<>> /\ log[Len(log)] = call.sent[1]
            /\ call.sent[1].method = MethodOf[call.op]
            /\ call.sent[1].url = do_url
            /\ IF Answered(answer) /\ answer.status_code = call.expected_status_code
               THEN /\ ~IsRaise(call.result)
                    /\ \/ call.result.ret = PyStr(answer.text)
                       \/ Return(call.result.ret) = json_loads(answer.text)
               ELSE /\ IsRaise(call.result)
                    /\ call.result.raise = "DocuSignException"
                    /\ Holds(call.result.message, do_url)
                    /\ Holds(call.result.message, <<MethodOf[call.op]>>)
                    /\ Answered(answer) =>
                           /\ Holds(call.result.message,
                                    IntStr(call.expected_status_code))
                           /\ Holds(call.result.message, IntStr(answer.status_code))
                           /\ Holds(call.result.message, answer.text)

----------------------------------------------------------------------------
(* The account of a client (SpecAccount) *)

\* the request is GET /login_information; the client has the account after it
IsLogin(sent) ==
    /\ sent.method = "GET"
    /\ sent.url = heap[sent.client].root_url.str \o <<"/login_information">>
LoginSucceeded(sent) ==
    /\ IsLogin(sent)
    /\ ~IsRaise(login_information(NewClient(PyStr(<<>>)), sent.answer).result)
\* the client the last call made its requests with, 0 when it had none
ClientOf(c) ==
    IF "self" \in DOMAIN c THEN c.self
    ELSE IF c.client # PyNone THEN c.client.ref
    ELSE IF c.envelope.client # PyNone THEN c.envelope.client.ref
    ELSE 0
\* the last call was an operation on the account of a client
OnAccount ==
    /\ call.op # "none"
    /\ ClientOf(call) # 0
    /\ "data" \in DOMAIN call => ~IsRaise(call.data)

\* C28: an operation on an account (the creation of an envelope, void_envelope,
\* get_envelope, post_recipient_view, get_envelope_document_list,
\* get_template, get_connect_failures, get, add, update and delete of
\* recipients) first calls login_information if and only if account_url is
\* empty, and sends its request only with an account_url that is not empty:
\* not at all when login_information fails.  Over the operations of a client,
\* no login_information follows one that succeeded.
C28_LoginOnlyWithoutAccount ==
    /\ OnAccount =>
           LET before == call.heap[ClientOf(call)]
               after == heap[ClientOf(call)]
               sent == call.sent
           IN  /\ ~Truthy(before.account_url) <=> (sent # <<>> /\ IsLogin(sent[1]))
               /\ \A i \in 1..Len(sent) :
                      ~IsLogin(sent[i]) =>
                          /\ i = Len(sent)
                          /\ Truthy(after.account_url)
                          /\ i = 2 => LoginSucceeded(sent[1])
               /\ \A i \in 2..Len(sent) : ~IsLogin(sent[i])
               /\ Truthy(before.account_url) => after = before
               /\ (sent # <<>> /\ LoginSucceeded(sent[1])) =>
                      Len(sent) = 2 /\ Truthy(after.account_url)
    /\ \A i, j \in 1..Len(log) :
           (i < j /\ log[i].client = log[j].client /\ LoginSucceeded(log[i]))
               => ~IsLogin(log[j])

\* a client without account has created an envelope, after a first request
\* for the account, and then voided an envelope e1 with one request
C28_Witness ==
    /\ OnAccount
    /\ calls = 2
    /\ call.op = "void_envelope"
    /\ Len(log) = 3
    /\ LoginSucceeded(log[1])
    /\ log[2].method = "POST"
    /\ call.sent = <<log[3]>>
    /\ ~IsLogin(log[3])
    /\ ~IsRaise(call.result)

\* the last call raised DocuSignException: requests raised an exception of
\* its own, or the status code of the answer was not the expected one
RequestFailed ==
    /\ "sent" \in DOMAIN call
    /\ call.sent # <<>>
    /\ IsRaise(call.result)
    /\ call.result.raise = "DocuSignException"
CreateOperations ==
    {"create_envelope_from_document", "create_envelope_from_documents",
     "create_envelope_from_template"}

\* C29: when the request of the creation of an envelope fails, by a network
\* failure or by a status code other than 201, envelope.envelopeId and
\* envelope.client are what they were before the call; when the request of
\* get_recipients fails, envelope.recipients and envelope.templateRoles are
\* what they were, and so is each recipient in them.
C29_FailedRequestLeavesEnvelope ==
    /\ (call.op \in CreateOperations /\ RequestFailed) =>
           /\ envelope.envelopeId = call.envelope.envelopeId
           /\ envelope.client = call.envelope.client
    /\ (call.op = "get_recipients" /\ RequestFailed) =>
           /\ envelope.recipients = call.envelope.recipients
           /\ ToString(envelope.templateRoles) = ToString(call.envelope.templateRoles)
           /\ Len(heap) = Len(call.heap)
           /\ \A k \in DOMAIN heap :
                  heap[k].class # "DocuSignClient" => heap[k] = call.heap[k]

\* the creation of an envelope of a template, without client, was answered
\* with status code 400, and then get_recipients met a network failure: the
\* envelope has no envelopeId, no client and its one role
C29_Witness ==
    /\ calls = 2
    /\ call.op = "get_recipients"
    /\ RequestFailed
    /\ call.sent[Len(call.sent)].answer = RequestException
    /\ \E i \in 1..Len(log) :
           /\ log[i].method = "POST"
           /\ Answered(log[i].answer)
           /\ log[i].answer.status_code = 400
    /\ envelope.envelopeId = PyNone
    /\ envelope.client = PyNone
    /\ ~IsNone(envelope.templateRoles)
    /\ envelope.templateRoles # <<>>

----------------------------------------------------------------------------
(* The event lists of EventNotification objects *)

\* a Python list on the heap
ListObject(items) == [class |-> "list", items |-> items]

\* the heap once the module is imported: DEFAULT_ENVELOPE_EVENTS at place 1
\* and DEFAULT_RECIPIENT_EVENTS at place 2
ModuleLists ==
    <<ListObject(DEFAULT_ENVELOPE_EVENTS), ListObject(DEFAULT_RECIPIENT_EVENTS)>>

\* EventNotification.__init__ when it takes list(DEFAULT_...) for None
EventNotification_init_copy(objects, url, envelopeEvents, recipientEvents) ==
    LET copies == objects
                  \o (IF envelopeEvents = PyNone
                      THEN <<ListObject(objects[1].items)>> ELSE <<>>)
                  \o (IF recipientEvents = PyNone
                      THEN <<ListObject(objects[2].items)>> ELSE <<>>)
        self == Len(copies) + 1
    IN  [objects |->
            Append(copies,
                   [NewEventNotification(url) EXCEPT
                       !.envelopeEvents = IF envelopeEvents = PyNone
                                          THEN [ref |-> Len(objects) + 1]
                                          ELSE envelopeEvents,
                       !.recipientEvents = IF recipientEvents = PyNone
                                           THEN [ref |-> Len(copies)]
                                           ELSE recipientEvents]),
         self |-> self]

\* EventNotification.__init__(url, envelopeEvents=..., recipientEvents=...),
\* each of the two None or a reference to a list: the new object is put on
\* the heap and holds the list given or else the list of the module, the list
\* itself in both cases
EventNotification_init(objects, url, envelopeEvents, recipientEvents) ==
    [objects |->
        Append(objects,
               [NewEventNotification(url) EXCEPT
                   !.envelopeEvents = IF envelopeEvents = PyNone
                                      THEN [ref |-> 1] ELSE envelopeEvents,
                   !.recipientEvents = IF recipientEvents = PyNone
                                       THEN [ref |-> 2] ELSE recipientEvents]),
     self |-> Len(objects) + 1]

EventAttributes == {"envelopeEvents", "recipientEvents"}
\* the EventNotification objects of the heap
Notifications == {k \in DOMAIN heap : heap[k].class = "EventNotification"}
\* the list an EventNotification holds as attribute
ListOf(objects, self, attribute) == objects[self][attribute].ref
\* an entry of a list of events
EventEntry(attribute, status) ==
    IF attribute = "envelopeEvents"
    THEN [envelopeEventStatusCode |-> PyStr(status), includeDocuments |-> PyBool(FALSE)]
    ELSE [recipientEventStatusCode |-> PyStr(status), includeDocuments |-> PyBool(FALSE)]
\* the entry a caller adds to a list: the status the default leaves out
LeftOut(attribute) ==
    IF attribute = "envelopeEvents"
    THEN EventEntry(attribute, ENVELOPE_STATUS_CREATED)
    ELSE EventEntry(attribute, RECIPIENT_STATUS_SIGNED)

\* EventNotification(url='url'), EventNotification(url='url',
\* envelopeEvents=[...]) and so on: a list given is a new list of the caller
Construct ==
    \E given_envelope, given_recipient \in BOOLEAN :
        LET url == PyStr(<<"u", "r", "l">>)
            first == IF given_envelope
                     THEN Append(heap, ListObject(<<EventEntry("envelopeEvents",
                                                               ENVELOPE_STATUS_SENT)>>))
                     ELSE heap
            second == IF given_recipient
                      THEN Append(first, ListObject(<<EventEntry("recipientEvents",
                                                                RECIPIENT_STATUS_SENT)>>))
                      ELSE first
            envelopeEvents == IF given_envelope THEN [ref |-> Len(first)] ELSE PyNone
            recipientEvents == IF given_recipient THEN [ref |-> Len(second)] ELSE PyNone
            after == EventNotification_init(second, url, envelopeEvents,
                                            recipientEvents)
            done == [op |-> "EventNotification", self |-> after.self,
                     envelopeEvents |-> envelopeEvents,
                     recipientEvents |-> recipientEvents]
        IN  /\ calls < MaxCalls
            /\ calls' = calls + 1
            /\ heap' = after.objects
            /\ log' = Append(log, done)
            /\ call' = done
            /\ UNCHANGED <<xml_soup, envelope, server>>

\* notification.envelopeEvents[index]['includeDocuments'] = True, and the
\* same on recipientEvents
SetIncludeDocuments ==
    \E self \in Notifications, attribute \in EventAttributes :
        \E index \in DOMAIN heap[ListOf(heap, self, attribute)].items :
            /\ calls < MaxCalls
            /\ calls' = calls + 1
            /\ heap' = [heap EXCEPT
                   ![ListOf(heap, self, attribute)].items[index].includeDocuments =
                       PyBool(TRUE)]
            /\ call' = [op |-> "setitem", self |-> self, attribute |-> attribute,
                        index |-> index]
            /\ UNCHANGED <<xml_soup, envelope, server, log>>

\* notification.envelopeEvents.append({...}), and the same on recipientEvents
AppendEvent ==
    \E self \in Notifications, attribute \in EventAttributes :
        /\ calls < MaxCalls
        /\ calls' = calls + 1
        /\ heap' = [heap EXCEPT
               ![ListOf(heap, self, attribute)].items = Append(@, LeftOut(attribute))]
        /\ call' = [op |-> "append", self |-> self, attribute |-> attribute,
                    index |-> Len(heap[ListOf(heap, self, attribute)].items) + 1]
        /\ UNCHANGED <<xml_soup, envelope, server, log>>

\* the module and one EventNotification(url='url')
InitNotification ==
    /\ xml_soup = Document(PyStr(<<"-", "7">>), <<>>, <<>>)
    /\ envelope = NewEnvelope
    /\ server = [envelopes |-> <<>>]
    /\ calls = 0
    /\ call = NoCall
    /\ LET built == EventNotification_init(ModuleLists, PyStr(<<"u", "r", "l">>),
                                            PyNone, PyNone)
       IN  /\ heap = built.objects
           /\ log = <<[op |-> "EventNotification", self |-> built.self,
                       envelopeEvents |-> PyNone, recipientEvents |-> PyNone]>>

NextNotification ==
    \/ Construct
    \/ SetIncludeDocuments
    \/ AppendEvent

SpecNotification == InitNotification /\ [][NextNotification]_vars

\* the EventNotification objects built without a list for the attribute
BuiltWithout(attribute) ==
    {log[i].self : i \in {j \in DOMAIN log : log[j][attribute] = PyNone}}
\* the entries an EventNotification has as attribute
Items(self, attribute) == heap[ListOf(heap, self, attribute)].items
ModuleItems(attribute) ==
    IF attribute = "envelopeEvents" THEN heap[1].items ELSE heap[2].items

\* C30: the EventNotification objects built without envelopeEvents all have
\* the list of the module as envelopeEvents, and so for recipientEvents: they
\* have the same entries at any time, whenever they were built, and when a
\* caller has just set includeDocuments on an entry of one of them, or
\* appended an entry to it, each of them has that entry so.
C30_DefaultListsShared ==
    \A attribute \in EventAttributes :
        /\ \A self \in BuiltWithout(attribute) :
               /\ Items(self, attribute) = ModuleItems(attribute)
               /\ \A other \in BuiltWithout(attribute) :
                      Items(self, attribute) = Items(other, attribute)
        /\ (/\ call.op \in {"setitem", "append"}
            /\ call.attribute = attribute
            /\ call.self \in BuiltWithout(attribute)) =>
               \A other \in BuiltWithout(attribute) :
                   /\ call.index \in DOMAIN Items(other, attribute)
                   /\ call.op = "setitem" =>
                          Items(other, attribute)[call.index].includeDocuments
                              = PyBool(TRUE)
                   /\ call.op = "append" =>
                          Items(other, attribute)[call.index] = LeftOut(attribute)

\* includeDocuments was set on the first entry of envelopeEvents of the
\* first EventNotification, and the EventNotification built after that
\* without lists has it set, and has not the five entries of the import
C30_Witness ==
    /\ calls = 2
    /\ call.op = "EventNotification"
    /\ call.self # log[1].self
    /\ {log[1].self, call.self} \subseteq BuiltWithout("envelopeEvents")
    /\ Items(call.self, "envelopeEvents")[1].includeDocuments = PyBool(TRUE)
    /\ Items(call.self, "envelopeEvents") # DEFAULT_ENVELOPE_EVENTS

============================================================================
